---- MODULE Spec2Model ----
(***************************************************************************)
(* Xero-to-PostgreSQL sync engine (src/xero_sync.py, class XeroSync).      *)
(*                                                                         *)
(* Part 1: the OAuth2 token lifecycle (get_access_token and the tokens     *)
(*         table) and the API client (_make_xero_request).                 *)
(*                                                                         *)
(* Time is counted in seconds.  Tokens are numbers: 0 is Python's None or  *)
(* an empty string, -1 the 'PLACEHOLDER' row value, 1 the refresh token    *)
(* configured in XERO_REFRESH_TOKEN, larger numbers are tokens issued by   *)
(* the identity endpoint.                                                  *)
(***************************************************************************)
EXTENDS Integers, Sequences, FiniteSets, TLC

\* ------------------------------------------------------------- bounds
\* Token responses the identity endpoint gives in one behaviour.
MaxIssued == 3
\* The clock stops advancing on its own past this many seconds.
MaxNow == 1800
\* Call chains of _make_xero_request started in one behaviour.
MaxCalls == 1

\* ------------------------------------------------- program constants
NoToken == 0
PLACEHOLDER == -1
None == -1
BootstrapToken == 1
DefaultExpiresIn == 1800
BufferMinutes == 5
BackoffSeconds == 60
MaxRateLimitRetries == 3

VARIABLES
    \* XeroSync fields
    refresh_token, access_token, access_token_expires_at, db_conn,
    \* xero.tokens: the row _load_tokens_from_db reads (<< >>: no row)
    tokens_row,
    \* identity endpoint: the refresh token it accepts, token responses given
    idp_current, issued,
    \* datetime.now()
    now,
    \* history of get_access_token: how the last call ended, the refresh
    \* token its POST sent, refreshes that returned normally
    \* and the consecutive forced refreshes that returned normally
    tok_ret, tok_sent, tok_refreshes, forced_run,
    \* one call chain of _make_xero_request
    req_pc, retry_count, auth_retry, req_log, req_result,
    \* call chains started so far, and now at the start of the current one
    calls, req_start,
    \* Part 2.  The remote collections: UpdatedDateUTC of account, contact
    \* and invoice 1..n, and the JournalNumbers
    remote_acc, remote_con, remote_inv, remote_jou,
    \* the database as committed, and as the process's connection sees it
    \* (its uncommitted statements included)
    db, txn,
    \* configuration: SYNC_BATCH_SIZE, FORCE_FULL_SYNC
    batch_size, force_full_sync,
    \* the process: where it is ("off": none), what started the entity sync,
    \* and the locals of the running sync_* method
    pc, entry, page, start_page, use_incremental, modified_after,
    batch_records, total_synced,
    force_full_resync, is_full_sync, current_offset,
    consecutive_empty_responses, journal_count,
    \* the flushes of the running sync_* method so far: where in the method,
    \* the size of the buffer and the records counted; for a journals batch
    \* also the rows of xero.journals as committed before the batch and the
    \* two counts of its verification
    flushes,
    \* history: processes started, how the last one ended, the pages the
    \* current run requested, the pages in the buffer, the first page and
    \* the filter of the walk that last marked the checkpoint running, and
    \* the pages of a batch that was committed when the process was killed
    \* before the checkpoint was advanced; and per finished run_full_sync its
    \* result and the row counts it left
    history, runs, kills, run_result, fetched, batch_pages, walk_first,
    walk_since, crash_batch,
    \* the keys of xero.invoices and xero.journals that were committed when
    \* the process was killed
    crash_rows,
    \* the sync_* methods the running process has entered, in order, each
    \* with how it ended ("running": it has not)
    started,
    \* the requests and statements that failed so far: what failed, for an
    \* insert of a flush the position and key of its record, and where
    faults

tokenVars == <<refresh_token, access_token, access_token_expires_at, db_conn,
               tokens_row, idp_current, issued, tok_ret, tok_sent, tok_refreshes,
               forced_run>>
reqVars == <<req_pc, retry_count, auth_retry, req_log, req_result, calls,
             req_start>>
remoteVars == <<remote_acc, remote_con, remote_inv, remote_jou>>
confVars == <<batch_size, force_full_sync>>
localVars == <<page, start_page, use_incremental, modified_after,
               batch_records, total_synced, flushes, batch_pages>>
jouVars == <<force_full_resync, is_full_sync, current_offset,
             consecutive_empty_responses, journal_count>>
histVars == <<history, runs, kills, run_result, fetched, walk_first,
              walk_since, crash_batch, crash_rows, started>>
syncVars == <<remoteVars, db, txn, confVars, pc, entry, localVars, jouVars,
              histVars, faults>>
apiVars == <<tokenVars, reqVars>>
vars == <<apiVars, now, syncVars>>

\* ------------------------------------------------------- TokenManager

\* Mutant of is_token_expired: the expiry time is not compared with the clock.
is_token_expired_unset_only(expires_at, buffer_minutes) == expires_at = None

\* self._is_token_expired(buffer_minutes)
is_token_expired(expires_at, buffer_minutes) ==
    IF expires_at = None THEN TRUE
    ELSE expires_at <= now + buffer_minutes * 60

\* The in-memory token state as one record.
TokenState ==
    [rt |-> refresh_token, at |-> access_token, exp |-> access_token_expires_at]

\* Mutant of load_tokens_from_db: the row's refresh token is not taken.
load_tokens_from_db_access_only(mem, load_fails) ==
    IF load_fails \/ tokens_row = << >> THEN mem
    ELSE LET row == tokens_row[1] IN
         IF row.rt # NoToken /\ row.rt # PLACEHOLDER
            /\ row.at # NoToken /\ row.exp # None /\ row.exp > now
         THEN [rt |-> mem.rt, at |-> row.at, exp |-> row.exp]
         ELSE mem

\* self._load_tokens_from_db(): the in-memory state after it.  A failing
\* query is logged and changes nothing.
load_tokens_from_db(mem, load_fails) ==
    IF load_fails \/ tokens_row = << >> THEN mem
    ELSE LET row == tokens_row[1] IN
         IF row.rt # NoToken /\ row.rt # PLACEHOLDER
         THEN LET valid == row.at # NoToken /\ row.exp # None /\ row.exp > now
              IN [rt |-> row.rt,
                  at |-> IF valid THEN row.at ELSE mem.at,
                  exp |-> IF valid THEN row.exp ELSE mem.exp]
         ELSE mem

\* self._save_tokens_to_db(): the newest row of xero.tokens after it.  A
\* failing insert or commit is logged and swallowed: the row stays.
save_tokens_to_db(mem, save_fails) ==
    IF save_fails THEN tokens_row
    ELSE <<[rt |-> mem.rt, at |-> mem.at, exp |-> mem.exp]>>

\* What the token POST can meet: the endpoint rotates the refresh token,
\* answers without a new one, or the request fails; expires_in given or not.
PostOutcomes == {"rotate", "keep", "neterr"}
ExpiresInChoices == {None, 240}
TokenEnv ==
    [load_fails : BOOLEAN, post : PostOutcomes,
     expires_in : ExpiresInChoices, save_fails : BOOLEAN]

\* requests.post(identity endpoint) + raise_for_status(): a refresh token
\* other than the current one is rejected; a rotation invalidates the old one.
identity_endpoint(sent, post) ==
    IF post = "neterr" \/ sent # idp_current
    THEN [ok |-> FALSE, at |-> NoToken, rt |-> NoToken, idp |-> idp_current]
    ELSE [ok |-> TRUE,
          at |-> issued + 1,
          rt |-> IF post = "rotate" THEN BootstrapToken + issued + 1 ELSE NoToken,
          idp |-> IF post = "rotate" THEN BootstrapToken + issued + 1
                  ELSE idp_current]

\* self.get_access_token(force_refresh): how it ends ("cached", "refreshed"
\* or "error": the exception is re-raised), the in-memory state, the tokens
\* row and the endpoint's state after it, and the refresh token it sent.
get_access_token(force_refresh, e) ==
    LET mem == TokenState IN
    IF ~force_refresh /\ access_token # NoToken
       /\ ~is_token_expired(access_token_expires_at, 0)
    THEN [ret |-> "cached", mem |-> mem, row |-> tokens_row,
          idp |-> idp_current, sent |-> NoToken]
    ELSE LET m1 == IF db_conn THEN load_tokens_from_db(mem, e.load_fails) ELSE mem
             r == identity_endpoint(m1.rt, e.post)
         IN IF ~r.ok
            THEN [ret |-> "error", mem |-> m1, row |-> tokens_row,
                  idp |-> r.idp, sent |-> m1.rt]
            ELSE LET m2 == [rt |-> IF r.rt # NoToken THEN r.rt ELSE m1.rt,
                            at |-> r.at,
                            exp |-> now + (IF e.expires_in = None
                                           THEN DefaultExpiresIn
                                           ELSE e.expires_in)]
                 IN [ret |-> "refreshed", mem |-> m2,
                     row |-> IF db_conn THEN save_tokens_to_db(m2, e.save_fails)
                             ELSE tokens_row,
                     idp |-> r.idp, sent |-> m1.rt]

\* The effect of one get_access_token call on the state.
ApplyToken(o, force_refresh) ==
    /\ refresh_token' = o.mem.rt
    /\ access_token' = o.mem.at
    /\ access_token_expires_at' = o.mem.exp
    /\ tokens_row' = o.row
    /\ idp_current' = o.idp
    /\ issued' = IF o.ret = "refreshed" THEN issued + 1 ELSE issued
    /\ tok_ret' = o.ret
    /\ tok_sent' = o.sent
    /\ tok_refreshes' = IF o.ret = "refreshed" THEN tok_refreshes + 1
                        ELSE tok_refreshes
    /\ forced_run' = IF o.ret = "refreshed" /\ force_refresh THEN forced_run + 1
                     ELSE 0
    /\ UNCHANGED db_conn

\* A token response is given only while the bound has one left.
TokenCallAllowed(o) == o.ret = "refreshed" => issued < MaxIssued

\* connect_db(): opens the connection and loads the tokens row.
ConnectDb ==
    /\ ~db_conn
    /\ req_pc = "idle"
    /\ \E load_fails \in BOOLEAN :
         LET m == load_tokens_from_db(TokenState, load_fails) IN
         /\ refresh_token' = m.rt
         /\ access_token' = m.at
         /\ access_token_expires_at' = m.exp
    /\ db_conn' = TRUE
    /\ UNCHANGED <<tokens_row, idp_current, issued, tok_ret, tok_sent,
                   tok_refreshes, forced_run, now, reqVars>>

\* A direct call of get_access_token(force_refresh) between requests.
GetAccessToken ==
    /\ db_conn
    /\ req_pc = "idle"
    /\ \E force_refresh \in BOOLEAN, e \in TokenEnv :
         LET o == get_access_token(force_refresh, e) IN
         /\ TokenCallAllowed(o)
         /\ ApplyToken(o, force_refresh)
    /\ UNCHANGED <<now, reqVars>>

\* Time passes between calls.
TickSteps == {400, 1500}
Tick ==
    /\ req_pc = "idle"
    /\ \E d \in TickSteps :
         /\ now + d <= MaxNow
         /\ now' = now + d
    /\ UNCHANGED <<tokenVars, reqVars>>

\* ---------------------------------------------------------- ApiClient

\* What requests.get can meet: 0 stands for an exception of requests.get
\* itself (timeout, connection error); json: the body parses as JSON.
StatusCodes == {0, 200, 304, 401, 404, 429, 500}
Responses == [status : StatusCodes, json : BOOLEAN]

Event(ev, status) == [ev |-> ev, status |-> status]

\* Mutant of raise_for_status: a 5xx is not raised.
raise_for_status_4xx_only(status) == 400 <= status /\ status < 500

\* response.raise_for_status(): raises HTTPError for 400..599 only.
raise_for_status(status) == 400 <= status /\ status < 600

\* A caller invokes _make_xero_request(endpoint, params).
ReqStart ==
    /\ db_conn
    /\ req_pc = "idle"
    /\ calls < MaxCalls
    /\ calls' = calls + 1
    /\ req_start' = now
    /\ req_pc' = "check"
    /\ retry_count' = 0
    /\ auth_retry' = FALSE
    /\ req_log' = << >>
    /\ req_result' = "none"
    /\ UNCHANGED <<tokenVars, now>>

\* Entry of every (recursive) invocation: the token is refreshed when none
\* is cached or it expires within the buffer; a failing refresh propagates.
ReqCheck ==
    /\ req_pc = "check"
    /\ IF access_token = NoToken
          \/ is_token_expired(access_token_expires_at, BufferMinutes)
       THEN \E e \in TokenEnv :
              LET o == get_access_token(TRUE, e) IN
              /\ TokenCallAllowed(o)
              /\ ApplyToken(o, TRUE)
              /\ req_log' = Append(req_log, Event("expiry_refresh", 0))
              /\ IF o.ret = "error"
                 THEN req_pc' = "done" /\ req_result' = "AuthError"
                 ELSE req_pc' = "get" /\ UNCHANGED req_result
       ELSE /\ req_pc' = "get"
            /\ UNCHANGED <<tokenVars, req_log, req_result>>
    /\ UNCHANGED <<now, retry_count, auth_retry, calls, req_start>>

\* Mutant of RateLimitBudget: one retry more.
RateLimitBudgetPlusOne == retry_count < MaxRateLimitRetries + 1

\* if retry_count < 3
RateLimitBudget == retry_count < MaxRateLimitRetries

\* requests.get answers 429: sleep 60 s and call again with retry_count + 1
\* while the budget lasts, else raise "Rate limit exceeded after 3 retries".
ReqGet429 ==
    /\ req_pc = "get"
    /\ IF RateLimitBudget
       THEN /\ now' = now + BackoffSeconds
            /\ req_log' = req_log \o <<Event("get", 429), Event("sleep", 0)>>
            /\ retry_count' = retry_count + 1
            /\ req_pc' = "check"
            /\ UNCHANGED req_result
       ELSE /\ req_log' = Append(req_log, Event("get", 429))
            /\ req_pc' = "done"
            /\ req_result' = "RateLimitExceeded"
            /\ UNCHANGED <<now, retry_count, calls, req_start>>
    /\ UNCHANGED <<tokenVars, auth_retry, calls, req_start>>

\* Mutant of AuthRetryAllowed: the flag is ignored.
AuthRetryAlways == TRUE

\* response.status_code == 401 and not auth_retry
AuthRetryAllowed == ~auth_retry

\* Mutant of retry_count_of_auth_retry: the 401 retry starts a new budget.
retry_count_of_auth_retry_reset == retry_count - retry_count

\* The retry_count argument of the call made after the forced refresh:
\* self._make_xero_request(endpoint, params, retry_count, auth_retry=True)
retry_count_of_auth_retry == retry_count

\* requests.get answers 401 and no auth retry was made yet: forced refresh,
\* then the same request again with auth_retry = True.
ReqGet401 ==
    /\ req_pc = "get"
    /\ AuthRetryAllowed
    /\ \E e \in TokenEnv :
         LET o == get_access_token(TRUE, e) IN
         /\ TokenCallAllowed(o)
         /\ ApplyToken(o, TRUE)
         /\ req_log' = req_log \o <<Event("get", 401), Event("auth_refresh", 0)>>
         /\ IF o.ret = "error"
            THEN req_pc' = "done" /\ req_result' = "AuthError"
                 /\ UNCHANGED <<auth_retry, retry_count>>
            ELSE req_pc' = "check" /\ auth_retry' = TRUE
                 /\ retry_count' = retry_count_of_auth_retry
                 /\ UNCHANGED req_result
    /\ UNCHANGED <<now, calls, req_start>>

\* Every other outcome of requests.get ends the call: an exception of
\* requests.get, raise_for_status() (a 401 after the auth retry included),
\* or response.json().
ReqGetOther ==
    /\ req_pc = "get"
    /\ \E r \in Responses :
         /\ r.status # 429
         /\ r.status = 401 => ~AuthRetryAllowed
         /\ req_log' = Append(req_log, Event("get", r.status))
         /\ req_result' =
              IF r.status = 0 THEN "RequestException"
              ELSE IF raise_for_status(r.status) THEN "HTTPError"
              ELSE IF r.json THEN "ok"
              ELSE "JSONDecodeError"
    /\ req_pc' = "done"
    /\ UNCHANGED <<tokenVars, now, retry_count, auth_retry, calls, req_start>>

\* The call chain is over: its result or exception is with the caller.
ReqReturn ==
    /\ req_pc = "done"
    /\ req_pc' = "idle"
    /\ retry_count' = 0
    /\ auth_retry' = FALSE
    /\ req_log' = << >>
    /\ req_result' = "none"
    /\ UNCHANGED <<tokenVars, now, calls, req_start>>

\* ------------------------------------------- specification of part 1

\* No row of the batch-committed entities.
NoRows == [invoices |-> {}, journals |-> {}]

\* An empty database: every table without a row.  aborted is the state of
\* the connection's transaction: set once the server has rejected one of its
\* statements, until the next commit or rollback.
EmptyDb ==
    [accounts |-> << >>, contacts |-> << >>, invoices |-> << >>,
     invoice_items |-> << >>, journals |-> << >>, journal_lines |-> << >>,
     sync_progress |-> << >>, sync_metadata |-> << >>, sync_log |-> << >>,
     aborted |-> FALSE]

\* The locals of a sync_* method before it runs.
NoLocals ==
    /\ page = 0
    /\ start_page = 0
    /\ use_incremental = FALSE
    /\ modified_after = None
    /\ batch_records = << >>
    /\ total_synced = 0
    /\ flushes = << >>
    /\ batch_pages = {}
    /\ force_full_resync = FALSE
    /\ is_full_sync = FALSE
    /\ current_offset = 0
    /\ consecutive_empty_responses = 0
    /\ journal_count = 0

\* Part 1 runs no entity sync.
NoSync ==
    /\ remote_acc = << >>
    /\ remote_con = << >>
    /\ remote_inv = << >>
    /\ remote_jou = {}
    /\ history = << >>
    /\ faults = << >>
    /\ db = EmptyDb
    /\ txn = EmptyDb
    /\ batch_size = 1
    /\ force_full_sync = FALSE
    /\ pc = "off"
    /\ entry = "none"
    /\ NoLocals
    /\ runs = 0
    /\ kills = 0
    /\ run_result = "none"
    /\ fetched = {}
    /\ walk_first = 0
    /\ walk_since = None
    /\ crash_batch = {}
    /\ crash_rows = NoRows
    /\ started = << >>

\* The tokens row a process can find: none, the placeholder row, or the row
\* of an earlier process that rotated the configured token.
PriorRow == [rt |-> BootstrapToken + 1, at |-> 1, exp |-> 600]
InitRows == {<< >>, <<[rt |-> PLACEHOLDER, at |-> NoToken, exp |-> None]>>,
             <<PriorRow>>}

InitApi ==
    /\ refresh_token = BootstrapToken
    /\ access_token = NoToken
    /\ access_token_expires_at = None
    /\ db_conn = FALSE
    /\ tokens_row \in InitRows
    /\ idp_current = IF tokens_row = <<PriorRow>> THEN PriorRow.rt
                     ELSE BootstrapToken
    /\ issued = IF tokens_row = <<PriorRow>> THEN 1 ELSE 0
    /\ now = 0
    /\ tok_ret = "none"
    /\ tok_sent = NoToken
    /\ tok_refreshes = 0
    /\ forced_run = 0
    /\ req_pc = "idle"
    /\ retry_count = 0
    /\ auth_retry = FALSE
    /\ req_log = << >>
    /\ req_result = "none"
    /\ calls = 0
    /\ req_start = 0

\* A process that has built its TokenManager and ApiClient and started no sync.
InitIdle ==
    /\ InitApi
    /\ NoSync

\* The token manager alone: direct calls of get_access_token.
NextTok ==
    /\ \/ ConnectDb
       \/ GetAccessToken
       \/ Tick
    /\ UNCHANGED syncVars

SpecTok == InitIdle /\ [][NextTok]_vars

\* The API client: every refresh happens inside _make_xero_request.
NextReq ==
    /\ \/ ConnectDb
       \/ Tick
       \/ ReqStart
       \/ ReqCheck
       \/ ReqGet429
       \/ ReqGet401
       \/ ReqGetOther
       \/ ReqReturn
    /\ UNCHANGED syncVars

SpecReq == InitIdle /\ [][NextReq]_vars

\* =====================================================================
\* Part 2: the entity syncs over the store
\* =====================================================================

\* ------------------------------------------------------ bounds of part 2
\* processes started in one behaviour
MaxRuns == 3
\* size of the largest remote invoice collection
MaxInvoices == 250
\* run_full_sync processes that run to their end in one behaviour
MaxFullRuns == 2
\* processes killed in one behaviour
MaxKills == 1
\* requests and statements that fail in one behaviour
MaxFaults == 1
\* JournalNumber of the journal the organisation posts while a process runs
PostedJournalNumber == 300

\* ------------------------------------------------------- program constants
PageSize == 100
MaxPagesInvoices == 2000

Min(a, b) == IF a < b THEN a ELSE b

\* ---------------------------------------------------------------- store
\* A table maps a key to its rows: n counts the rows carrying the key (a
\* unique key keeps it at 1), ver is the content last written.
insert(tbl, key, ver) ==
    IF key \in DOMAIN tbl
    THEN [tbl EXCEPT ![key] = [n |-> @.n + 1, ver |-> ver]]
    ELSE tbl @@ (key :> [n |-> 1, ver |-> ver])

\* INSERT ... ON CONFLICT (key) DO UPDATE SET ...
upsert(tbl, key, ver) ==
    IF key \in DOMAIN tbl
    THEN [tbl EXCEPT ![key] = [n |-> @.n, ver |-> ver]]
    ELSE tbl @@ (key :> [n |-> 1, ver |-> ver])

\* SELECT COUNT(*): the rows of a table.
RowCount(tbl) ==
    Cardinality(UNION {{<<k, j>> : j \in 1..tbl[k].n} : k \in DOMAIN tbl})

\* db_conn.commit(): what the connection sees becomes the committed state;
\* the COMMIT of a transaction the server has aborted rolls it back and
\* raises nothing.
Commit(t) ==
    LET c == IF t.aborted THEN db ELSE t
    IN /\ db' = c
       /\ txn' = c

\* _get_sync_progress: the row of sync_type, or the default when there is
\* none.
get_sync_progress(sync_type) ==
    IF sync_type \in DOMAIN txn.sync_progress
    THEN LET row == txn.sync_progress[sync_type]
         IN [last_page |-> row.last_synced_page,
             last_completed |-> row.last_sync_completed_at,
             last_modified |-> row.last_modified_after,
             status |-> row.sync_status]
    ELSE [last_page |-> 0, last_completed |-> None, last_modified |-> None,
          status |-> "idle"]

\* Mutant of update_sync_progress: completion leaves last_synced_page as it
\* is.
update_sync_progress_keep_page(t, sync_type, pg, status, completed, ma, ts) ==
    IF sync_type \notin DOMAIN t.sync_progress THEN t
    ELSE IF completed
    THEN [t EXCEPT !.sync_progress[sync_type] =
            [last_synced_page |-> @.last_synced_page,
             last_sync_completed_at |-> ts,
             last_modified_after |-> IF ma # None THEN ma ELSE ts,
             sync_status |-> "completed"]]
    ELSE IF pg # None
    THEN [t EXCEPT !.sync_progress[sync_type].last_synced_page = pg,
                   !.sync_progress[sync_type].sync_status =
                        IF status # "" THEN status ELSE "running"]
    ELSE IF status # ""
    THEN [t EXCEPT !.sync_progress[sync_type].sync_status = status]
    ELSE t

\* _update_sync_progress without its commit: an UPDATE of the row of
\* sync_type, which changes nothing when the row does not exist.  pg = None
\* and status = "" stand for the arguments left out; ts is the clock.
update_sync_progress(t, sync_type, pg, status, completed, ma, ts) ==
    IF sync_type \notin DOMAIN t.sync_progress THEN t
    ELSE IF completed
    THEN [t EXCEPT !.sync_progress[sync_type] =
            [last_synced_page |-> 0,
             last_sync_completed_at |-> ts,
             last_modified_after |-> IF ma # None THEN ma ELSE ts,
             sync_status |-> "completed"]]
    ELSE IF pg # None
    THEN [t EXCEPT !.sync_progress[sync_type].last_synced_page = pg,
                   !.sync_progress[sync_type].sync_status =
                        IF status # "" THEN status ELSE "running"]
    ELSE IF status # ""
    THEN [t EXCEPT !.sync_progress[sync_type].sync_status = status]
    ELSE t

\* _log_sync without its commit: one more row of sync_log.
log_sync(t, sync_type, records_synced, status) ==
    [t EXCEPT !.sync_log = Append(@, [sync_type |-> sync_type,
                                      records_synced |-> records_synced,
                                      status |-> status])]

\* --------------------------------------------------------------- remote
\* A paged list of the service for params page, pageSize 100 and the
\* optional where clause UpdatedDateUTC >= since: the records at positions
\* (page - 1) * 100 + 1 .. page * 100 among those of the collection the
\* filter lets through, in the order of the collection; empty past the
\* last one.
page_of(coll, pg, since) ==
    LET N == Len(coll)
        Match(i) == since = None \/ coll[i] >= since
        rank == [i \in 1..N |-> Cardinality({j \in 1..i : Match(j)})] @@ << >>
        total == IF N = 0 THEN 0 ELSE rank[N]
        lo == (pg - 1) * PageSize
        hi == Min(pg * PageSize, IF since = None THEN N ELSE total)
        at(k) == IF since = None THEN k
                 ELSE CHOOSE i \in 1..N : Match(i) /\ rank[i] = k
    IN [k \in 1..(hi - lo) |->
            LET i == at(lo + k) IN [id |-> i, ver |-> coll[i]]]

\* response.get('Accounts', []): the endpoint does not page.
fetch_accounts == [i \in 1..Len(remote_acc) |-> [id |-> i, ver |-> remote_acc[i]]]

\* response.get('Contacts', []) for a page.
fetch_contacts(pg) == page_of(remote_con, pg, None)

\* response.get('Invoices', []) for a page, filtered in an incremental sync.
fetch_invoices(pg, since) == page_of(remote_inv, pg, since)

\* The LineItemIDs of an invoice: none, one or two lines.
LineItems(id) == 1..(id % 3)

\* --------------------------------------------------------- sync_invoices
\* The record of a list that writes a key last.
last_of(batch, id) ==
    LET S == {k \in DOMAIN batch : batch[k].id = id}
    IN batch[CHOOSE k \in S : \A j \in S : j <= k]

\* The upserts of a list of statements on one table.  Statements on
\* different keys commute, so the row of a key is the one its last statement
\* leaves: written maps each key written to the content written last.
execute_many(tbl, written) ==
    [key \in DOMAIN tbl \cup DOMAIN written |->
        IF key \in DOMAIN written THEN upsert(tbl, key, written[key])[key]
        ELSE tbl[key]]

\* execute_batch(cursor, insert_query, data) of sync_accounts and
\* sync_contacts: one upsert per record.
execute_batch(tbl, data) ==
    execute_many(tbl, [id \in {data[k].id : k \in DOMAIN data} |->
                            last_of(data, id).ver])

\* for invoice in batch_records: the executes of the buffer, one on the
\* invoice's row and one on the row of each of its line items, keyed by
\* "<InvoiceID>_<LineItemID>".
execute_invoices(t, batch) ==
    LET Ids == {batch[k].id : k \in DOMAIN batch}
        ItemKeys == UNION {{<<id, l>> : l \in LineItems(id)} : id \in Ids}
        Ver == [id \in Ids |-> last_of(batch, id).ver]
    IN [t EXCEPT !.invoices = execute_many(@, Ver),
                 !.invoice_items =
                     execute_many(@, [key \in ItemKeys |-> Ver[key[1]]])]

\* Mutant of end_of_collection: a page shorter than the page size ends the
\* walk too.
short_page(records) == Len(records) < PageSize

\* if not contacts: break / if not invoices: break
end_of_collection(records) == records = << >>

\* Mutant of batch_full: the threshold is one page, whatever batch_size is.
batch_full_one_page(records) == Len(records) >= 100

\* if len(batch_records) >= (self.batch_size * 100)
batch_full(records) == Len(records) >= batch_size * 100

\* The keys of the records of a buffer.
ids_of(batch) == {batch[k].id : k \in DOMAIN batch}

\* A sync_* method is entered; the one running returns or raises.
enter(entity) == Append(started, [entity |-> entity, result |-> "running"])
leave(result) == [started EXCEPT ![Len(started)].result = result]

ResetLocals ==
    /\ page' = 0
    /\ start_page' = 0
    /\ use_incremental' = FALSE
    /\ modified_after' = None
    /\ batch_records' = << >>
    /\ total_synced' = 0
    /\ flushes' = << >>
    /\ batch_pages' = {}
    /\ force_full_resync' = FALSE
    /\ is_full_sync' = FALSE
    /\ current_offset' = 0
    /\ consecutive_empty_responses' = 0
    /\ journal_count' = 0

\* What a request (ok) and the statements of a flush (db_error) can do while
\* the bound on failures has one left; the labels an exception leads to.
RequestOutcomes == IF Len(faults) < MaxFaults THEN BOOLEAN ELSE {TRUE}
StatementOutcomes == IF Len(faults) < MaxFaults THEN BOOLEAN ELSE {FALSE}
ExceptLabels == {"acc_except", "con_except", "inv_except", "jou_except"}

\* What the executes of a flush of invoices or journals can meet while the
\* bound on failures has one left: nothing; the insert of the parent record
\* at a position of the buffer fails, in psycopg2 before the statement is sent ("client": the
\* transaction goes on) or at the server ("server": the transaction is
\* aborted and every later statement of it fails); the insert of a child
\* record (invoice item, journal line) fails ("line").
NoFailure == [kind |-> "none", at |-> 0]
FailingPosition == 2
FlushOutcomes(batch) ==
    IF Len(faults) < MaxFaults
    THEN {NoFailure, [kind |-> "line", at |-> 0]}
         \cup [kind : {"client", "server"},
             at : {IF Len(batch) < FailingPosition THEN Len(batch)
                   ELSE FailingPosition}]
    ELSE {NoFailure}

\* sync_invoices has no try inside its loops: whichever execute fails and
\* wherever, the exception reaches the same handler, so one failing insert of
\* a parent record stands for all of them.
InvoiceFlushOutcomes ==
    IF Len(faults) < MaxFaults
    THEN {NoFailure} \cup
         [kind : {"client", "server"},
          at : {IF Len(batch_records) < FailingPosition
                THEN Len(batch_records) ELSE FailingPosition}]
    ELSE {NoFailure}

\* The connection's view after the executes of a flush of invoices that
\* met f: the records before the failing one are executed and pending, and
\* a failure at the server leaves the transaction aborted.
execute_invoices_try(t, batch, f) ==
    IF f.kind = "none" THEN execute_invoices(t, batch)
    ELSE [execute_invoices(t, SubSeq(batch, 1, f.at - 1))
             EXCEPT !.aborted = (f.kind = "server")]

\* Mutant of rollback: the handler leaves the transaction as it is.
rollback_skipped == txn

\* self.db_conn.rollback(): the connection sees the committed store again.
rollback == db

\* A batch without the record at position k.
without(batch, k) == SubSeq(batch, 1, k - 1) \o SubSeq(batch, k + 1, Len(batch))

\* The failure of a request or of a statement outside a flush, and the
\* failure f of a flush of the buffer, as recorded.
raised == [kind |-> "raise", at |-> 0, id |-> 0, pc |-> pc]
failed(f, batch) ==
    [kind |-> f.kind, at |-> f.at,
     id |-> IF f.at > 0 THEN batch[f.at].id ELSE 0, pc |-> pc]

\* ---------------------------------------------------------- sync_accounts
\* The request and, for a list that is not empty, the execute_batch; an
\* empty list returns 0 at once.
AccSync ==
    /\ pc = "acc_begin"
    /\ \E ok \in RequestOutcomes, db_error \in StatementOutcomes :
         LET accounts == fetch_accounts
         IN IF ~ok \/ (db_error /\ accounts # << >>)
            THEN /\ pc' = "acc_except"
                 /\ UNCHANGED <<txn, total_synced>>
            ELSE IF accounts = << >>
            THEN /\ pc' = "con_begin"
                 /\ UNCHANGED <<txn, total_synced>>
            ELSE /\ txn' = [txn EXCEPT !.accounts = execute_batch(@, accounts)]
                 /\ total_synced' = Len(accounts)
                 /\ pc' = "acc_commit"
    /\ faults' = IF pc' \in ExceptLabels THEN Append(faults, raised) ELSE faults
    /\ UNCHANGED <<apiVars, now, remoteVars, db, confVars, entry, page,
                   start_page, use_incremental, modified_after, batch_records,
                   flushes, batch_pages, jouVars, history, runs, kills,
                   run_result, fetched, walk_first, walk_since, crash_batch, crash_rows>>
    /\ started' = Append(started, [entity |-> "accounts",
                                  result |-> IF pc' = "con_begin" THEN "ok"
                                             ELSE "running"])

AccCommit ==
    /\ pc = "acc_commit"
    /\ Commit(txn)
    /\ pc' = "acc_log"
    /\ UNCHANGED <<apiVars, now, remoteVars, confVars, entry, localVars,
                   jouVars, histVars, faults>>

\* Log the success and return len(accounts).
AccLog ==
    /\ pc = "acc_log"
    /\ Commit(log_sync(txn, "accounts", total_synced, "success"))
    /\ ResetLocals
    /\ pc' = "con_begin"
    /\ UNCHANGED <<apiVars, now, remoteVars, confVars, entry, history, runs, kills,
                   run_result, fetched, walk_first, walk_since, crash_batch, crash_rows, faults>>
    /\ started' = leave("ok")

\* except: rollback, the failure logged with 0 records, and the raise.
AccExcept ==
    /\ pc = "acc_except"
    /\ Commit(log_sync(rollback, "accounts", 0, "failed"))
    /\ ResetLocals
    /\ pc' = "full_except"
    /\ UNCHANGED <<apiVars, now, remoteVars, confVars, entry, history, runs, kills,
                   run_result, fetched, walk_first, walk_since, crash_batch, crash_rows, faults>>
    /\ started' = leave("failed")

\* ---------------------------------------------------------- sync_contacts
MaxPagesContacts == 200

ConStart ==
    /\ pc = "con_begin"
    /\ page' = 1
    /\ batch_records' = << >>
    /\ pc' = "con_fetch"
    /\ UNCHANGED <<apiVars, now, remoteVars, db, txn, confVars, entry,
                   start_page, use_incremental, modified_after, total_synced,
                   flushes, batch_pages, jouVars, history, runs, kills,
                   run_result, fetched, walk_first, walk_since, crash_batch, crash_rows, faults>>
    /\ started' = enter("contacts")

\* One pass of the while loop: the request, the break on an empty page, the
\* extension of all_contacts, page += 1 and the one-second sleep.
ConFetch ==
    /\ pc = "con_fetch"
    /\ IF page > MaxPagesContacts
       THEN /\ pc' = "con_flush"
            /\ UNCHANGED <<now, page, batch_records>>
       ELSE \E ok \in RequestOutcomes :
            LET contacts == fetch_contacts(page)
            IN IF ~ok
               THEN /\ pc' = "con_except"
                    /\ UNCHANGED <<now, page, batch_records>>
               ELSE IF end_of_collection(contacts)
               THEN /\ pc' = "con_flush"
                    /\ UNCHANGED <<now, page, batch_records>>
               ELSE /\ batch_records' = batch_records \o contacts
                    /\ page' = page + 1
                    /\ now' = now + 1
                    /\ pc' = "con_fetch"
    /\ faults' = IF pc' \in ExceptLabels THEN Append(faults, raised) ELSE faults
    /\ UNCHANGED <<apiVars, remoteVars, db, txn, confVars, entry, start_page,
                   use_incremental, modified_after, total_synced, flushes,
                   batch_pages, jouVars, histVars>>

\* After the loop: return 0 when nothing was fetched, else the execute_batch.
ConFlush ==
    /\ pc = "con_flush"
    /\ IF batch_records = << >>
       THEN /\ pc' = "inv_begin"
            /\ ResetLocals
            /\ UNCHANGED txn
       ELSE \E db_error \in StatementOutcomes :
            /\ IF db_error
               THEN /\ pc' = "con_except"
                    /\ UNCHANGED txn
               ELSE /\ txn' = [txn EXCEPT
                                 !.contacts = execute_batch(@, batch_records)]
                    /\ pc' = "con_commit"
            /\ UNCHANGED <<localVars, jouVars>>
    /\ faults' = IF pc' \in ExceptLabels THEN Append(faults, raised) ELSE faults
    /\ UNCHANGED <<apiVars, now, remoteVars, db, confVars, entry, history, runs, kills,
                   run_result, fetched, walk_first, walk_since, crash_batch, crash_rows>>
    /\ started' = IF pc' = "inv_begin" THEN leave("ok") ELSE started

ConCommit ==
    /\ pc = "con_commit"
    /\ Commit(txn)
    /\ pc' = "con_log"
    /\ UNCHANGED <<apiVars, now, remoteVars, confVars, entry, localVars,
                   jouVars, histVars, faults>>

\* Log the success and return len(contacts).
ConLog ==
    /\ pc = "con_log"
    /\ Commit(log_sync(txn, "contacts", Len(batch_records), "success"))
    /\ ResetLocals
    /\ pc' = "inv_begin"
    /\ UNCHANGED <<apiVars, now, remoteVars, confVars, entry, history, runs, kills,
                   run_result, fetched, walk_first, walk_since, crash_batch, crash_rows, faults>>
    /\ started' = leave("ok")

\* Mutant of ConExcept: the exception is not raised again, and
\* run_full_sync goes on with the invoices.
ConExceptSwallowed ==
    /\ pc = "con_except"
    /\ Commit(log_sync(rollback, "contacts", 0, "failed"))
    /\ ResetLocals
    /\ pc' = "inv_begin"
    /\ UNCHANGED <<apiVars, now, remoteVars, confVars, entry, history, runs, kills,
                   run_result, fetched, walk_first, walk_since, crash_batch, crash_rows, faults>>
    /\ started' = leave("failed")

\* except: rollback, the failure logged with 0 records, and the raise.
ConExcept ==
    /\ pc = "con_except"
    /\ Commit(log_sync(rollback, "contacts", 0, "failed"))
    /\ ResetLocals
    /\ pc' = "full_except"
    /\ UNCHANGED <<apiVars, now, remoteVars, confVars, entry, history, runs, kills,
                   run_result, fetched, walk_first, walk_since, crash_batch, crash_rows, faults>>
    /\ started' = leave("failed")

\* Mutant of start_page_of: a resumed run starts at the checkpointed page.
start_page_of_last_page(progress) ==
    IF progress.status = "running" THEN progress.last_page ELSE 1

\* start_page = progress['last_page'] + 1 if progress['status'] == 'running'
\* else 1
start_page_of(progress) ==
    IF progress.status = "running" THEN progress.last_page + 1 ELSE 1

\* Mutant of use_incremental_of: the status of the checkpoint is not looked
\* at.
use_incremental_any_status(progress) ==
    /\ ~force_full_sync
    /\ progress.last_modified # None

\* use_incremental: not force_full_sync, a stored last_modified and the
\* status completed.
use_incremental_of(progress) ==
    /\ ~force_full_sync
    /\ progress.last_modified # None
    /\ progress.status = "completed"

\* A direct call of sync_invoices on a connected XeroSync.
StartInvoices ==
    /\ pc = "off"
    /\ runs < MaxRuns
    /\ runs' = runs + 1
    /\ pc' = "inv_begin"
    /\ entry' = "sync_invoices"
    /\ fetched' = {}
    /\ crash_batch' = IF run_result = "killed" THEN crash_batch ELSE {}
    /\ crash_rows' = IF run_result = "killed" THEN crash_rows ELSE NoRows
    /\ run_result' = "none"
    /\ UNCHANGED <<apiVars, now, remoteVars, db, txn, confVars, localVars,
                   jouVars, history, kills, walk_first, walk_since, faults>>
    /\ started' = << >>

\* Mutant of InvStart: a failed checkpoint is resumed like a running one.
InvStartResumeFailed ==
    /\ pc = "inv_begin"
    /\ LET progress == get_sync_progress("invoices")
           sp == IF progress.status \in {"running", "failed"}
                 THEN progress.last_page + 1 ELSE 1
           incr == use_incremental_of(progress)
       IN /\ start_page' = sp
          /\ use_incremental' = incr
          \* the DateTime(y,m,d,h,m,s) text keeps whole seconds, the unit
          \* of the clock here
          /\ modified_after' = IF incr THEN progress.last_modified ELSE None
          /\ Commit(update_sync_progress(txn, "invoices", sp, "running",
                                         FALSE, None, now))
          /\ page' = IF incr THEN 1 ELSE sp
          /\ walk_first' = page'
          /\ walk_since' = modified_after'
    /\ total_synced' = 0
    /\ flushes' = << >>
    /\ batch_records' = << >>
    /\ batch_pages' = {}
    /\ pc' = "inv_fetch"
    /\ UNCHANGED <<apiVars, now, remoteVars, confVars, entry, jouVars, history,
                   runs, kills, run_result, fetched, crash_batch, crash_rows, faults>>
    /\ started' = enter("invoices")

\* From the entry of sync_invoices to the head of its while loop: read the
\* checkpoint, decide the walk, mark the checkpoint running at start_page.
InvStart ==
    /\ pc = "inv_begin"
    /\ LET progress == get_sync_progress("invoices")
           sp == start_page_of(progress)
           incr == use_incremental_of(progress)
       IN /\ start_page' = sp
          /\ use_incremental' = incr
          \* the DateTime(y,m,d,h,m,s) text keeps whole seconds, the unit
          \* of the clock here
          /\ modified_after' = IF incr THEN progress.last_modified ELSE None
          /\ Commit(update_sync_progress(txn, "invoices", sp, "running",
                                         FALSE, None, now))
          /\ page' = IF incr THEN 1 ELSE sp
          /\ walk_first' = page'
          /\ walk_since' = modified_after'
    /\ total_synced' = 0
    /\ flushes' = << >>
    /\ batch_records' = << >>
    /\ batch_pages' = {}
    /\ pc' = "inv_fetch"
    /\ UNCHANGED <<apiVars, now, remoteVars, confVars, entry, jouVars, history,
                   runs, kills, run_result, fetched, crash_batch, crash_rows, faults>>
    /\ started' = enter("invoices")

\* One pass of the while loop up to the batch test: the request (which
\* returns the page or raises, part 1), the break on an empty page, the
\* extension of the buffer, and for a buffer still short page += 1 and the
\* one-second sleep.
InvFetch ==
    /\ pc = "inv_fetch"
    /\ IF page > MaxPagesInvoices
       THEN /\ pc' = "inv_final"
            /\ UNCHANGED <<now, localVars, fetched>>
       ELSE \E ok \in RequestOutcomes :
            LET invoices == fetch_invoices(page, modified_after)
            IN /\ fetched' = IF ok THEN fetched \cup {page} ELSE fetched
               /\ IF ~ok
                  THEN /\ pc' = "inv_except"
                       /\ UNCHANGED <<now, localVars>>
                  ELSE IF end_of_collection(invoices)
                  THEN /\ pc' = "inv_final"
                       /\ UNCHANGED <<now, localVars>>
                  ELSE /\ batch_records' = batch_records \o invoices
                       /\ batch_pages' = batch_pages \cup {page}
                       /\ IF batch_full(batch_records')
                          THEN /\ pc' = "inv_flush"
                               /\ UNCHANGED <<now, page>>
                          ELSE /\ pc' = "inv_fetch"
                               /\ page' = page + 1
                               /\ now' = now + 1
                       /\ UNCHANGED <<start_page, use_incremental,
                                      modified_after, total_synced, flushes>>
    /\ faults' = IF pc' \in ExceptLabels THEN Append(faults, raised) ELSE faults
    /\ UNCHANGED <<apiVars, remoteVars, db, txn, confVars, entry, jouVars,
                   history, runs, kills, run_result, walk_first, walk_since,
                   crash_batch, crash_rows>>
    /\ UNCHANGED started

\* The executes of a full buffer: there is no try inside the loop, so a
\* failing insert, of an invoice or of an item, raises out of it.
InvFlush ==
    /\ pc = "inv_flush"
    /\ \E f \in InvoiceFlushOutcomes :
         /\ txn' = execute_invoices_try(txn, batch_records, f)
         /\ pc' = IF f.kind # "none" THEN "inv_except" ELSE "inv_commit"
         /\ faults' = IF f.kind = "none" THEN faults
                      ELSE Append(faults, failed(f, batch_records))
    /\ UNCHANGED <<apiVars, now, remoteVars, db, confVars, entry, localVars,
                   jouVars, histVars>>

\* Mutant of InvCommit: the batch is counted and not committed.
InvCommitLeftPending ==
    /\ pc = "inv_commit"
    /\ total_synced' = total_synced + Len(batch_records)
    /\ flushes' = Append(flushes, [at |-> "batch", size |-> Len(batch_records),
                                    count |-> Len(batch_records),
                                    ids |-> ids_of(batch_records),
                                    committed |-> FALSE])
    /\ pc' = "inv_mark"
    /\ UNCHANGED <<apiVars, now, remoteVars, db, txn, confVars, entry, page,
                   start_page, use_incremental, modified_after, batch_records,
                   batch_pages, jouVars, histVars, faults>>

\* COMMIT BATCH and total_synced += invoice_count.
InvCommit ==
    /\ pc = "inv_commit"
    /\ Commit(txn)
    /\ total_synced' = total_synced + Len(batch_records)
    /\ flushes' = Append(flushes, [at |-> "batch", size |-> Len(batch_records),
                                    count |-> Len(batch_records),
                                    ids |-> ids_of(batch_records),
                                    committed |-> ~txn.aborted])
    /\ pc' = "inv_mark"
    /\ UNCHANGED <<apiVars, now, remoteVars, confVars, entry, page, start_page,
                   use_incremental, modified_after, batch_records, batch_pages,
                   jouVars, histVars, faults>>

\* Mutant of InvMark: the buffer is not cleared.
InvMarkKeepsBuffer ==
    /\ pc = "inv_mark"
    /\ Commit(update_sync_progress(txn, "invoices", page, "running", FALSE,
                                   None, now))
    /\ batch_pages' = {}
    /\ page' = page + 1
    /\ now' = now + 1
    /\ pc' = "inv_fetch"
    /\ UNCHANGED <<apiVars, remoteVars, confVars, entry, start_page,
                   use_incremental, modified_after, total_synced, flushes,
                   batch_records, jouVars, histVars, faults>>

\* Update progress to the page just committed, clear the buffer, page += 1
\* and the one-second sleep.
InvMark ==
    /\ pc = "inv_mark"
    /\ Commit(update_sync_progress(txn, "invoices", page, "running", FALSE,
                                   None, now))
    /\ batch_records' = << >>
    /\ batch_pages' = {}
    /\ page' = page + 1
    /\ now' = now + 1
    /\ pc' = "inv_fetch"
    /\ UNCHANGED <<apiVars, remoteVars, confVars, entry, start_page,
                   use_incremental, modified_after, total_synced, flushes,
                   jouVars, histVars, faults>>

\* After the loop: the executes of a buffer that is not empty.
InvFinal ==
    /\ pc = "inv_final"
    /\ IF batch_records = << >>
       THEN /\ pc' = "inv_complete"
            /\ UNCHANGED <<txn, faults>>
       ELSE \E f \in InvoiceFlushOutcomes :
            /\ txn' = execute_invoices_try(txn, batch_records, f)
            /\ pc' = IF f.kind # "none" THEN "inv_except" ELSE "inv_fcommit"
            /\ faults' = IF f.kind = "none" THEN faults
                         ELSE Append(faults, failed(f, batch_records))
    /\ UNCHANGED <<apiVars, now, remoteVars, db, confVars, entry, localVars,
                   jouVars, histVars>>

\* COMMIT FINAL BATCH and total_synced += invoice_count.
InvFinalCommit ==
    /\ pc = "inv_fcommit"
    /\ Commit(txn)
    /\ total_synced' = total_synced + Len(batch_records)
    /\ flushes' = Append(flushes, [at |-> "final", size |-> Len(batch_records),
                                    count |-> Len(batch_records),
                                    ids |-> ids_of(batch_records),
                                    committed |-> ~txn.aborted])
    /\ pc' = "inv_fmark"
    /\ UNCHANGED <<apiVars, now, remoteVars, confVars, entry, page, start_page,
                   use_incremental, modified_after, batch_records, batch_pages,
                   jouVars, histVars, faults>>

\* Update progress with the last page processed, page - 1.
InvFinalMark ==
    /\ pc = "inv_fmark"
    /\ Commit(update_sync_progress(txn, "invoices", page - 1, "running",
                                   FALSE, None, now))
    /\ pc' = "inv_complete"
    /\ UNCHANGED <<apiVars, now, remoteVars, confVars, entry, localVars,
                   jouVars, histVars, faults>>

\* Mutant of InvComplete: the completion writes the status alone.
InvCompleteStatusOnly ==
    /\ pc = "inv_complete"
    /\ Commit(update_sync_progress(txn, "invoices", None, "completed", FALSE,
                                   None, now))
    /\ pc' = "inv_log"
    /\ UNCHANGED <<apiVars, now, remoteVars, confVars, entry, localVars,
                   jouVars, histVars, faults>>

\* Mark the sync completed with sync_timestamp = datetime.now().
InvComplete ==
    /\ pc = "inv_complete"
    /\ Commit(update_sync_progress(txn, "invoices", None, "", TRUE, now, now))
    /\ pc' = "inv_log"
    /\ UNCHANGED <<apiVars, now, remoteVars, confVars, entry, localVars,
                   jouVars, histVars, faults>>

\* Log the success and return total_synced.
InvLog ==
    /\ pc = "inv_log"
    /\ Commit(log_sync(txn, "invoices", total_synced, "success"))
    /\ ResetLocals
    /\ IF entry = "run_full_sync"
       THEN /\ pc' = "jou_begin"
            /\ UNCHANGED <<entry, run_result>>
       ELSE /\ pc' = "off"
            /\ entry' = "none"
            /\ run_result' = "ok"
    /\ UNCHANGED <<apiVars, now, remoteVars, confVars, history, runs, kills,
                   fetched, walk_first, walk_since, crash_batch, crash_rows, faults>>
    /\ started' = leave("ok")

\* Mutant of InvExcept: the handler also sends the checkpoint back to the
\* start.
InvExceptRestart ==
    /\ pc = "inv_except"
    /\ Commit(update_sync_progress(rollback, "invoices", 0, "failed", FALSE,
                                   None, now))
    /\ pc' = "inv_exlog"
    /\ UNCHANGED <<apiVars, now, remoteVars, confVars, entry, localVars,
                   jouVars, histVars, faults>>

\* except: rollback and the checkpoint set to failed.
InvExcept ==
    /\ pc = "inv_except"
    /\ Commit(update_sync_progress(rollback, "invoices", None, "failed", FALSE,
                                   None, now))
    /\ pc' = "inv_exlog"
    /\ UNCHANGED <<apiVars, now, remoteVars, confVars, entry, localVars,
                   jouVars, histVars, faults>>

\* except, continued: the failure logged with 0 records, and the raise.
InvExceptLog ==
    /\ pc = "inv_exlog"
    /\ Commit(log_sync(txn, "invoices", 0, "failed"))
    /\ ResetLocals
    /\ IF entry = "run_full_sync"
       THEN /\ pc' = "full_except"
            /\ UNCHANGED <<entry, run_result>>
       ELSE /\ pc' = "off"
            /\ entry' = "none"
            /\ run_result' = "failed"
    /\ UNCHANGED <<apiVars, now, remoteVars, confVars, history, runs, kills,
                   fetched, walk_first, walk_since, crash_batch, crash_rows, faults>>
    /\ started' = leave("failed")

\* ---------------------------------------------------------- sync_journals
\* Mutant of MaxEmptyResponses: the walk gives up one empty response earlier.
TwoEmptyResponses == 3 - 1

MaxEmptyResponses == 3
EmptyOffsetStep == 100
FullResyncDays == 7
SecondsPerDay == 86400

\* The JournalLineIDs of a journal: one or two lines.
JournalLines(num) == 1..(1 + (num % 2))

\* response.get('Journals', []) for params offset: the journals with a
\* JournalNumber above the offset, in ascending order, 100 at most.
fetch_journals(offset) ==
    LET W == {n \in remote_jou : n > offset}
        rank == [n \in W |-> Cardinality({m \in W : m <= n})] @@ << >>
        cnt == Min(PageSize, Cardinality(W))
    IN [k \in 1..cnt |->
            LET n == CHOOSE x \in W : rank[x] = k IN [id |-> n, ver |-> 0]]

\* SELECT MAX(journal_number) FROM xero.journals (None on an empty table).
max_journal_number(t) ==
    IF DOMAIN t.journals = {} THEN None
    ELSE CHOOSE m \in DOMAIN t.journals : \A n \in DOMAIN t.journals : n <= m

\* for journal in batch_records: the executes of the buffer, one on the
\* journal's row and one on the row of each of its lines, keyed by
\* "<JournalID>_<JournalLineID>".
execute_journals(t, batch) ==
    LET Ids == {batch[k].id : k \in DOMAIN batch}
        LineKeys == UNION {{<<id, l>> : l \in JournalLines(id)} : id \in Ids}
        Ver == [id \in Ids |-> last_of(batch, id).ver]
    IN [t EXCEPT !.journals = execute_many(@, Ver),
                 !.journal_lines =
                     execute_many(@, [key \in LineKeys |-> Ver[key[1]]])]

\* Mutant of full_resync_due: the age of the last full sync is not looked
\* at.
full_resync_due_unless_recorded(meta) ==
    IF force_full_resync THEN TRUE
    ELSE IF "journals" \in DOMAIN meta
    THEN meta["journals"].last_full_sync = None
    ELSE TRUE

\* The first decision of sync_journals: forced, no sync_metadata row, no
\* last_full_sync in it, or (datetime.now() - last_full_sync).days >= 7.
full_resync_due(meta) ==
    IF force_full_resync THEN TRUE
    ELSE IF "journals" \in DOMAIN meta
    THEN IF meta["journals"].last_full_sync # None
         THEN (now - meta["journals"].last_full_sync)
                  \div SecondsPerDay >= FullResyncDays
         ELSE TRUE
    ELSE TRUE

\* From the entry of sync_journals to the head of its while loop: full or
\* incremental, the starting offset, and the checkpoint marked running.
JouStart ==
    /\ pc = "jou_begin"
    /\ LET due == full_resync_due(txn.sync_metadata)
           result == max_journal_number(txn)
           last_journal_number == IF result # None THEN result ELSE 0
       IN /\ is_full_sync' = (due \/ last_journal_number <= 0)
          /\ current_offset' = IF due THEN 0 ELSE last_journal_number
    /\ Commit(update_sync_progress(txn, "journals", None, "running", FALSE,
                                   None, now))
    /\ total_synced' = 0
    /\ flushes' = << >>
    /\ batch_records' = << >>
    /\ consecutive_empty_responses' = 0
    /\ journal_count' = 0
    /\ pc' = "jou_fetch"
    /\ UNCHANGED <<apiVars, now, remoteVars, confVars, entry, page, start_page,
                   use_incremental, modified_after, batch_pages,
                   force_full_resync, history, runs, kills,
                   run_result, fetched, walk_first, walk_since, crash_batch, crash_rows, faults>>
    /\ started' = enter("journals")

\* Mutant of offset_after: the offset moves to the first journal of the
\* response.
offset_after_first(journals) == journals[1].id

\* last_num = journals[-1].get('JournalNumber'); current_offset = last_num
offset_after(journals) == journals[Len(journals)].id

\* One pass of the while loop up to the batch test: the request, the count
\* of consecutive empty responses with the break at the third and the
\* offset moved on by 100 before it, the offset set to the last
\* JournalNumber, the extension of the buffer, and the one-second sleep.
JouFetch ==
    /\ pc = "jou_fetch"
    /\ \E ok \in RequestOutcomes :
         LET journals == fetch_journals(current_offset)
         IN IF ~ok
            THEN /\ pc' = "jou_except"
                 /\ UNCHANGED <<now, batch_records, current_offset,
                                consecutive_empty_responses>>
            ELSE IF journals = << >>
            THEN /\ consecutive_empty_responses' =
                        consecutive_empty_responses + 1
                 /\ IF consecutive_empty_responses' >= MaxEmptyResponses
                    THEN /\ pc' = "jou_final"
                         /\ UNCHANGED <<now, current_offset>>
                    ELSE /\ current_offset' = current_offset + EmptyOffsetStep
                         /\ now' = now + 1
                         /\ pc' = "jou_fetch"
                 /\ UNCHANGED batch_records
            ELSE /\ consecutive_empty_responses' = 0
                 /\ current_offset' = offset_after(journals)
                 /\ batch_records' = batch_records \o journals
                 /\ IF batch_full(batch_records')
                    THEN /\ pc' = "jou_flush"
                         /\ UNCHANGED now
                    ELSE /\ pc' = "jou_fetch"
                         /\ now' = now + 1
    /\ faults' = IF pc' \in ExceptLabels THEN Append(faults, raised) ELSE faults
    /\ UNCHANGED <<apiVars, remoteVars, db, txn, confVars, entry, page,
                   start_page, use_incremental, modified_after, total_synced,
                   flushes, batch_pages, force_full_resync, is_full_sync,
                   journal_count, histVars>>

\* for journal in batch_records, with the try around the insert of the
\* journal: a failing insert is logged and the loop continues with the next
\* journal, its lines not inserted.  In an aborted transaction the inserts of
\* all later journals fail the same way.  t: the connection's view after the
\* loop, n: journal_count.
execute_journals_try(t, batch, f) ==
    IF f.kind = "client"
    THEN [t |-> execute_journals(t, without(batch, f.at)), n |-> Len(batch) - 1]
    ELSE IF f.kind = "server"
    THEN [t |-> [execute_journals(t, SubSeq(batch, 1, f.at - 1))
                    EXCEPT !.aborted = TRUE],
          n |-> f.at - 1]
    ELSE [t |-> execute_journals(t, batch), n |-> Len(batch)]

\* The connection's view when the insert of a line of the journal at the
\* failing position raises out of the loop: the journals before it are
\* executed with their lines, its own row is executed, and the transaction
\* is aborted when the failure came from the server.
execute_journals_line_raises(t, batch, aborted) ==
    LET p == IF Len(batch) < FailingPosition THEN Len(batch)
             ELSE FailingPosition
        before == execute_journals(t, SubSeq(batch, 1, p - 1))
    IN [before EXCEPT
          !.journals = execute_many(@, [id \in {batch[p].id} |-> batch[p].ver]),
          !.aborted = aborted]

\* The executes of a full buffer and the SELECT COUNT(*) before the commit:
\* the insert of a line raises out of the loop, and so does the SELECT in an
\* aborted transaction.
JouFlush ==
    /\ pc = "jou_flush"
    /\ \E f \in FlushOutcomes(batch_records) :
         /\ IF f.kind = "line"
            THEN /\ pc' = "jou_except"
                 /\ \E aborted \in BOOLEAN :
                      txn' = execute_journals_line_raises(txn, batch_records,
                                                          aborted)
                 /\ UNCHANGED journal_count
            ELSE LET r == execute_journals_try(txn, batch_records, f)
                 IN /\ txn' = r.t
                    /\ journal_count' = r.n
                    /\ pc' = IF r.t.aborted THEN "jou_except" ELSE "jou_commit"
         /\ faults' = IF f.kind = "none" THEN faults
                      ELSE Append(faults, failed(f, batch_records))
    /\ UNCHANGED <<apiVars, now, remoteVars, db, confVars, entry, localVars,
                   force_full_resync, is_full_sync, current_offset,
                   consecutive_empty_responses, histVars>>

\* if count_after != count_before + journal_count: warning, else verified
commit_verified(count_before, count, count_after) ==
    count_after = count_before + count

\* Mutant of verification_raises: a mismatch fails the sync.
verification_raises_on_mismatch(verified) == ~verified

\* The if/else after the verification logs a warning or a confirmation and
\* raises nothing.
verification_raises(verified) == FALSE

\* COMMIT BATCH: count_before read on the connection before the commit,
\* count_after after it, the verification, total_synced += journal_count,
\* the buffer cleared and the one-second sleep.
JouCommit ==
    /\ pc = "jou_commit"
    /\ Commit(txn)
    /\ LET count_before == RowCount(txn.journals)
           count_after == RowCount(db'.journals)
           verified == commit_verified(count_before, journal_count, count_after)
       IN /\ flushes' = Append(flushes,
                [at |-> "batch", size |-> Len(batch_records),
                 count |-> journal_count, ids |-> ids_of(batch_records),
                 rows_before |-> RowCount(db.journals),
                 count_before |-> count_before, count_after |-> count_after,
                 warning |-> ~verified, committed |-> ~txn.aborted])
          /\ IF verification_raises(verified)
             THEN /\ pc' = "jou_except"
                  /\ UNCHANGED <<total_synced, batch_records, now>>
             ELSE /\ total_synced' = total_synced + journal_count
                  /\ batch_records' = << >>
                  /\ now' = now + 1
                  /\ pc' = "jou_fetch"
    /\ UNCHANGED <<apiVars, remoteVars, confVars, entry, page, start_page,
                   use_incremental, modified_after, batch_pages, jouVars,
                   histVars, faults>>

\* After the loop: the executes of a buffer that is not empty.
JouFinal ==
    /\ pc = "jou_final"
    /\ IF batch_records = << >>
       THEN /\ pc' = "jou_complete"
            /\ UNCHANGED <<txn, journal_count, faults>>
       ELSE \E f \in FlushOutcomes(batch_records) :
            /\ IF f.kind = "line"
               THEN /\ pc' = "jou_except"
                    /\ \E aborted \in BOOLEAN :
                         txn' = execute_journals_line_raises(txn, batch_records,
                                                             aborted)
                    /\ UNCHANGED journal_count
               ELSE LET r == execute_journals_try(txn, batch_records, f)
                    IN /\ txn' = r.t
                       /\ journal_count' = r.n
                       /\ pc' = "jou_fcommit"
            /\ faults' = IF f.kind = "none" THEN faults
                      ELSE Append(faults, failed(f, batch_records))
    /\ UNCHANGED <<apiVars, now, remoteVars, db, confVars, entry, localVars,
                   force_full_resync, is_full_sync, current_offset,
                   consecutive_empty_responses, histVars>>

\* COMMIT FINAL BATCH and total_synced += journal_count.
JouFinalCommit ==
    /\ pc = "jou_fcommit"
    /\ Commit(txn)
    /\ total_synced' = total_synced + journal_count
    /\ flushes' = Append(flushes, [at |-> "final", size |-> Len(batch_records),
                                    count |-> journal_count,
                                    ids |-> ids_of(batch_records),
                                    committed |-> ~txn.aborted])
    /\ pc' = "jou_complete"
    /\ UNCHANGED <<apiVars, now, remoteVars, confVars, entry, page, start_page,
                   use_incremental, modified_after, batch_records, batch_pages,
                   jouVars, histVars, faults>>

\* Mark the sync completed with sync_timestamp = datetime.now().
JouComplete ==
    /\ pc = "jou_complete"
    /\ Commit(update_sync_progress(txn, "journals", None, "", TRUE, now, now))
    /\ pc' = "jou_meta"
    /\ UNCHANGED <<apiVars, now, remoteVars, confVars, entry, localVars,
                   jouVars, histVars, faults>>

\* Mutant of JouMeta: both dates are written whatever the run was.
JouMetaBothDates ==
    /\ pc = "jou_meta"
    /\ Commit([txn EXCEPT !.sync_metadata =
                  [e \in {"journals"} |->
                      [last_full_sync |-> now, last_incremental_sync |-> now]]])
    /\ pc' = "jou_log"
    /\ UNCHANGED <<apiVars, now, remoteVars, confVars, entry, localVars,
                   jouVars, histVars, faults>>

\* The sync_metadata row of 'journals' upserted: both dates after a full
\* sync, last_incremental_sync alone after an incremental one.
JouMeta ==
    /\ pc = "jou_meta"
    /\ LET meta == txn.sync_metadata
           row == IF is_full_sync
                  THEN [last_full_sync |-> now, last_incremental_sync |-> now]
                  ELSE IF "journals" \in DOMAIN meta
                  THEN [meta["journals"] EXCEPT !.last_incremental_sync = now]
                  ELSE [last_full_sync |-> None, last_incremental_sync |-> now]
       IN Commit([txn EXCEPT !.sync_metadata = [e \in {"journals"} |-> row]])
    /\ pc' = "jou_log"
    /\ UNCHANGED <<apiVars, now, remoteVars, confVars, entry, localVars,
                   jouVars, histVars, faults>>

\* Log the success and return total_synced.
JouLog ==
    /\ pc = "jou_log"
    /\ Commit(log_sync(txn, "journals", total_synced, "success"))
    /\ ResetLocals
    /\ pc' = "full_done"
    /\ UNCHANGED <<apiVars, now, remoteVars, confVars, entry, history, runs, kills,
                   run_result, fetched, walk_first, walk_since, crash_batch, crash_rows, faults>>
    /\ started' = leave("ok")

\* except: rollback and the checkpoint set to failed.
JouExcept ==
    /\ pc = "jou_except"
    /\ Commit(update_sync_progress(rollback, "journals", None, "failed", FALSE,
                                   None, now))
    /\ pc' = "jou_exlog"
    /\ UNCHANGED <<apiVars, now, remoteVars, confVars, entry, localVars,
                   jouVars, histVars, faults>>

\* except, continued: the failure logged with 0 records, and the raise.
JouExceptLog ==
    /\ pc = "jou_exlog"
    /\ Commit(log_sync(txn, "journals", 0, "failed"))
    /\ ResetLocals
    /\ pc' = "full_except"
    /\ UNCHANGED <<apiVars, now, remoteVars, confVars, entry, history, runs, kills,
                   run_result, fetched, walk_first, walk_since, crash_batch, crash_rows, faults>>
    /\ started' = leave("failed")

\* ---------------------------------------------------------- run_full_sync
\* SELECT COUNT(*) of every entity table and child table.
Tables == {"accounts", "contacts", "invoices", "invoice_items", "journals",
           "journal_lines"}
Counts(d) == [t \in Tables |-> RowCount(d[t])]

\* A process calls run_full_sync(force_journal_resync): connect_db.
FullStart ==
    /\ pc = "off"
    /\ runs - kills < MaxFullRuns
    /\ runs' = runs + 1
    /\ pc' = "acc_begin"
    /\ entry' = "run_full_sync"
    /\ force_full_resync' \in BOOLEAN
    /\ fetched' = {}
    /\ crash_batch' = IF run_result = "killed" THEN crash_batch ELSE {}
    /\ crash_rows' = IF run_result = "killed" THEN crash_rows ELSE NoRows
    /\ run_result' = "none"
    /\ UNCHANGED <<apiVars, now, remoteVars, db, txn, confVars, localVars,
                   is_full_sync, current_offset, consecutive_empty_responses,
                   journal_count, history, kills, walk_first, walk_since, faults>>
    /\ started' = << >>

\* The four syncs returned: return True, and close_db.
FullReturn ==
    /\ pc = "full_done"
    /\ pc' = "off"
    /\ entry' = "none"
    /\ run_result' = "ok"
    /\ history' = Append(history, [result |-> "ok", counts |-> Counts(db),
                                   syncs |-> started, exit |-> 0])
    /\ UNCHANGED <<apiVars, now, remoteVars, db, txn, confVars, localVars,
                   jouVars, runs, kills, fetched, walk_first, walk_since,
                   crash_batch, crash_rows, faults>>
    /\ UNCHANGED started

\* One of the syncs raised: return False, and close_db.
FullExcept ==
    /\ pc = "full_except"
    /\ pc' = "off"
    /\ entry' = "none"
    /\ run_result' = "failed"
    /\ history' = Append(history, [result |-> "failed", counts |-> Counts(db),
                                   syncs |-> started, exit |-> 1])
    /\ UNCHANGED <<apiVars, now, remoteVars, db, txn, confVars, localVars,
                   jouVars, runs, kills, fetched, walk_first, walk_since,
                   crash_batch, crash_rows, faults>>
    /\ UNCHANGED started

\* A week passes between two processes.
WeekPasses ==
    /\ pc = "off"
    /\ runs > 0
    /\ now < FullResyncDays * SecondsPerDay
    /\ now' = now + FullResyncDays * SecondsPerDay
    /\ UNCHANGED <<apiVars, syncVars>>

\* The process is terminated: its locals and the uncommitted statements of
\* its connection are gone, the committed state stays.
Kill ==
    /\ pc # "off"
    /\ kills < MaxKills
    /\ pc' = "off"
    /\ entry' = "none"
    /\ txn' = db
    /\ ResetLocals
    /\ kills' = kills + 1
    /\ run_result' = "killed"
    /\ crash_batch' = IF pc \in {"inv_mark", "inv_fmark"} THEN batch_pages
                      ELSE {}
    /\ crash_rows' = [invoices |-> DOMAIN db.invoices,
                      journals |-> DOMAIN db.journals]
    /\ UNCHANGED <<apiVars, now, remoteVars, db, confVars, history, runs,
                   fetched, walk_first, walk_since, faults>>
    /\ UNCHANGED started

\* The labels at which a sync is about to call _make_xero_request.
RequestLabels == {"acc_begin", "con_fetch", "inv_fetch", "jou_fetch"}

\* What the refresh made for a request of a walk meets: the endpoint rotates
\* the refresh token; the save succeeds or fails.
MaxWalkRefreshes == 1
WalkTokenEnv ==
    {e \in TokenEnv : ~e.load_fails /\ e.post = "rotate" /\ e.expires_in = None}

\* _make_xero_request finds the access token missing or expiring, or gets a
\* 401: get_access_token(force_refresh=True) on the way to the GET of a
\* walk.  _save_tokens_to_db commits on the connection the sync writes on.
WalkRefresh ==
    /\ pc \in RequestLabels
    /\ tok_refreshes < MaxWalkRefreshes
    /\ \E e \in WalkTokenEnv :
         LET o == get_access_token(TRUE, e) IN
         /\ o.ret = "refreshed"
         /\ TokenCallAllowed(o)
         /\ ApplyToken(o, TRUE)
         /\ IF e.save_fails THEN UNCHANGED <<db, txn>> ELSE Commit(txn)
    /\ UNCHANGED <<now, reqVars, remoteVars, confVars, pc, entry, localVars,
                   jouVars, histVars, faults>>

\* The organisation posts a journal while sync_journals walks: the remote
\* collection grows by a JournalNumber above all it held.
PostJournals ==
    /\ pc = "jou_fetch"
    /\ \A n \in remote_jou : n < PostedJournalNumber
    /\ remote_jou' = remote_jou \cup {PostedJournalNumber}
    /\ UNCHANGED <<apiVars, now, remote_acc, remote_con, remote_inv, db, txn,
                   confVars, pc, entry, localVars, jouVars, histVars, faults>>

\* ------------------------------------------- specification: sync_invoices
\* The sync_progress rows of a provisioned database.
IdleRow ==
    [last_synced_page |-> 0, last_sync_completed_at |-> None,
     last_modified_after |-> None, sync_status |-> "idle"]
SeededProgress == [t \in {"invoices", "journals"} |-> IdleRow]
InitDbs == {EmptyDb, [EmptyDb EXCEPT !.sync_progress = SeededProgress]}

InvoiceCounts == {0, 100, 150, MaxInvoices}
BatchSizes == {1, 2}

InitInv ==
    /\ InitApi
    /\ tokens_row = << >>
    /\ remote_acc = << >>
    /\ remote_con = << >>
    /\ \E n \in InvoiceCounts : remote_inv = [i \in 1..n |-> 0]
    /\ remote_jou = {}
    /\ history = << >>
    /\ faults = << >>
    /\ db \in InitDbs
    /\ txn = db
    /\ batch_size \in BatchSizes
    /\ force_full_sync \in BOOLEAN
    /\ pc = "off"
    /\ entry = "none"
    /\ NoLocals
    /\ runs = 0
    /\ kills = 0
    /\ run_result = "none"
    /\ fetched = {}
    /\ walk_first = 0
    /\ walk_since = None
    /\ crash_batch = {}
    /\ crash_rows = NoRows
    /\ started = << >>

NextInv ==
    \/ StartInvoices
    \/ InvStart
    \/ InvFetch
    \/ InvFlush
    \/ InvCommit
    \/ InvMark
    \/ InvFinal
    \/ InvFinalCommit
    \/ InvFinalMark
    \/ InvComplete
    \/ InvLog
    \/ InvExcept
    \/ InvExceptLog
    \/ Kill

SpecInv == InitInv /\ [][NextInv]_vars

\* The page walk of sync_contacts alone, on collections that end before,
\* at and after page max_pages.  The walk is entered at its start or at the
\* head of the while loop after WalkedPages passes, with the locals those
\* passes leave: page and all_contacts.
MaxContacts == 20100
ContactCounts == {150, MaxPagesContacts * PageSize, MaxContacts}
WalkedPages == {0, MaxPagesContacts - 2}

InitWalk ==
    /\ InitApi
    /\ tokens_row = << >>
    /\ remote_acc = << >>
    /\ remote_inv = << >>
    /\ remote_jou = {}
    /\ history = << >>
    /\ faults = << >>
    /\ db = [EmptyDb EXCEPT !.sync_progress = SeededProgress]
    /\ txn = db
    /\ batch_size = 1
    /\ force_full_sync = FALSE
    /\ entry = "run_full_sync"
    /\ \E n \in ContactCounts, k \in WalkedPages :
         /\ k * PageSize <= n
         /\ remote_con = [i \in 1..n |-> 0]
         /\ pc = IF k = 0 THEN "con_begin" ELSE "con_fetch"
         /\ page = IF k = 0 THEN 0 ELSE k + 1
         /\ batch_records = [i \in 1..(k * PageSize) |-> [id |-> i, ver |-> 0]]
         /\ started = IF k = 0 THEN << >>
                      ELSE <<[entity |-> "contacts", result |-> "running"]>>
    /\ start_page = 0
    /\ use_incremental = FALSE
    /\ modified_after = None
    /\ total_synced = 0
    /\ flushes = << >>
    /\ batch_pages = {}
    /\ force_full_resync = FALSE
    /\ is_full_sync = FALSE
    /\ current_offset = 0
    /\ consecutive_empty_responses = 0
    /\ journal_count = 0
    /\ runs = 1
    /\ kills = 0
    /\ run_result = "none"
    /\ fetched = {}
    /\ walk_first = 0
    /\ walk_since = None
    /\ crash_batch = {}
    /\ crash_rows = NoRows

NextWalk ==
    \/ ConStart
    \/ ConFetch

SpecWalk == InitWalk /\ [][NextWalk]_vars

\* sync_invoices with the default SYNC_BATCH_SIZE of 10 pages or with 1 and
\* the default FORCE_FULL_SYNC, on three full pages of invoices.
DefaultBatchSize == 10

InitDefault ==
    /\ InitApi
    /\ tokens_row = << >>
    /\ remote_acc = << >>
    /\ remote_con = << >>
    /\ remote_inv = [i \in 1..(3 * PageSize) |-> 0]
    /\ remote_jou = {}
    /\ history = << >>
    /\ faults = << >>
    /\ db \in InitDbs
    /\ txn = db
    /\ batch_size \in {1, DefaultBatchSize}
    /\ force_full_sync = FALSE
    /\ pc = "off"
    /\ entry = "none"
    /\ NoLocals
    /\ runs = 0
    /\ kills = 0
    /\ run_result = "none"
    /\ fetched = {}
    /\ walk_first = 0
    /\ walk_since = None
    /\ crash_batch = {}
    /\ crash_rows = NoRows
    /\ started = << >>

SpecDefault == InitDefault /\ [][NextInv]_vars

\* The organisation edits invoices between two processes, once: the last k
\* invoices of the collection get an UpdatedDateUTC after every watermark
\* stored so far.
ModifiedCounts == {20, 150}

ModifyInvoices ==
    /\ pc = "off"
    /\ run_result = "ok"
    /\ \A i \in DOMAIN remote_inv : remote_inv[i] = 0
    /\ now' = now + 1
    /\ \E k \in ModifiedCounts :
         /\ k <= Len(remote_inv)
         /\ remote_inv' = [i \in DOMAIN remote_inv |->
                              IF i > Len(remote_inv) - k THEN now'
                              ELSE remote_inv[i]]
    /\ UNCHANGED <<apiVars, remote_acc, remote_con, remote_jou, db, txn,
                   confVars, pc, entry, localVars, jouVars, histVars, faults>>

\* sync_invoices with pages of one batch each against a provisioned database
\* and an organisation of two full pages of invoices that edits some of them
\* after a completed run.
InitIncremental ==
    /\ InitApi
    /\ tokens_row = << >>
    /\ remote_acc = << >>
    /\ remote_con = << >>
    /\ remote_inv = [i \in 1..(2 * PageSize) |-> 0]
    /\ remote_jou = {}
    /\ history = << >>
    /\ faults = << >>
    /\ db = [EmptyDb EXCEPT !.sync_progress = SeededProgress]
    /\ txn = db
    /\ batch_size = 1
    /\ force_full_sync \in BOOLEAN
    /\ pc = "off"
    /\ entry = "none"
    /\ NoLocals
    /\ runs = 0
    /\ kills = 0
    /\ run_result = "none"
    /\ fetched = {}
    /\ walk_first = 0
    /\ walk_since = None
    /\ crash_batch = {}
    /\ crash_rows = NoRows
    /\ started = << >>

NextIncremental ==
    \/ NextInv
    \/ ModifyInvoices

SpecIncremental == InitIncremental /\ [][NextIncremental]_vars

\* The organisation edits one invoice while the first process runs
\* sync_invoices, once: the invoice gets an UpdatedDateUTC after every time
\* read so far, and keeps its place in the collection.
EditedInvoices == {1, 2 * PageSize}

EditDuringRun ==
    /\ pc # "off"
    /\ runs = 1
    /\ \A i \in DOMAIN remote_inv : remote_inv[i] = 0
    /\ now' = now + 1
    /\ \E i \in EditedInvoices :
         /\ i <= Len(remote_inv)
         /\ remote_inv' = [remote_inv EXCEPT ![i] = now']
    /\ UNCHANGED <<apiVars, remote_acc, remote_con, remote_jou, db, txn,
                   confVars, pc, entry, localVars, jouVars, histVars, faults>>

NextEdit ==
    \/ NextIncremental
    \/ EditDuringRun

\* sync_invoices against an organisation that edits invoices during a run
\* or between two runs.
SpecEdit == InitIncremental /\ [][NextEdit]_vars

\* --------------------------------------------- specification: run_full_sync
\* The remote collections of an organisation: empty; one full page of each
\* with a gap in the JournalNumbers; several pages of each.
NoRecords == [acc |-> 0, con |-> 0, inv |-> 0, jou |-> {}]
OnePage == [acc |-> 2, con |-> 100, inv |-> 100, jou |-> (1..100) \cup (131..140)]
ManyPages == [acc |-> 3, con |-> 120, inv |-> MaxInvoices, jou |-> 1..150]

\* Deployments: the organisation, SYNC_BATCH_SIZE, FORCE_FULL_SYNC and
\* whether the database was provisioned with its sync_progress rows.
Deployments ==
    {[org |-> NoRecords, batch_size |-> 1, force |-> FALSE, seeded |-> TRUE],
     [org |-> OnePage, batch_size |-> 1, force |-> TRUE, seeded |-> TRUE],
     [org |-> OnePage, batch_size |-> 2, force |-> FALSE, seeded |-> FALSE],
     [org |-> ManyPages, batch_size |-> 1, force |-> TRUE, seeded |-> TRUE],
     [org |-> ManyPages, batch_size |-> 2, force |-> FALSE, seeded |-> TRUE],
     [org |-> ManyPages, batch_size |-> 1, force |-> FALSE, seeded |-> FALSE]}

SmallDeployments == {d \in Deployments : d.org # ManyPages}

Deployed(D) ==
    /\ \E d \in D :
         /\ remote_acc = [i \in 1..d.org.acc |-> 0]
         /\ remote_con = [i \in 1..d.org.con |-> 0]
         /\ remote_inv = [i \in 1..d.org.inv |-> 0]
         /\ remote_jou = d.org.jou
         /\ db = IF d.seeded
                 THEN [EmptyDb EXCEPT !.sync_progress = SeededProgress]
                 ELSE EmptyDb
         /\ batch_size = d.batch_size
         /\ force_full_sync = d.force
    /\ txn = db
    /\ pc = "off"
    /\ entry = "none"
    /\ NoLocals
    /\ history = << >>
    /\ faults = << >>
    /\ runs = 0
    /\ kills = 0
    /\ run_result = "none"
    /\ fetched = {}
    /\ walk_first = 0
    /\ walk_since = None
    /\ crash_batch = {}
    /\ crash_rows = NoRows
    /\ started = << >>

InitDeployed(D) ==
    /\ InitApi
    /\ tokens_row = << >>
    /\ Deployed(D)

InitFull == InitDeployed(Deployments)

\* Processes that run to their end, whatever their requests and statements
\* do.
NextFull ==
    \/ FullStart
    \/ AccSync
    \/ AccCommit
    \/ AccLog
    \/ AccExcept
    \/ ConStart
    \/ ConFetch
    \/ ConFlush
    \/ ConCommit
    \/ ConLog
    \/ ConExcept
    \/ InvStart
    \/ InvFetch
    \/ InvFlush
    \/ InvCommit
    \/ InvMark
    \/ InvFinal
    \/ InvFinalCommit
    \/ InvFinalMark
    \/ InvComplete
    \/ InvLog
    \/ InvExcept
    \/ InvExceptLog
    \/ JouStart
    \/ JouFetch
    \/ JouFlush
    \/ JouCommit
    \/ JouFinal
    \/ JouFinalCommit
    \/ JouComplete
    \/ JouMeta
    \/ JouLog
    \/ JouExcept
    \/ JouExceptLog
    \/ FullReturn
    \/ FullExcept
    \/ WeekPasses

SpecFull == InitFull /\ [][NextFull]_vars

\* Processes that have connected to the database and refresh the token
\* where a request needs it.
InitShared ==
    /\ refresh_token = BootstrapToken
    /\ access_token = NoToken
    /\ access_token_expires_at = None
    /\ db_conn = TRUE
    /\ tokens_row = << >>
    /\ idp_current = BootstrapToken
    /\ issued = 0
    /\ now = 0
    /\ tok_ret = "none"
    /\ tok_sent = NoToken
    /\ tok_refreshes = 0
    /\ forced_run = 0
    /\ req_pc = "idle"
    /\ retry_count = 0
    /\ auth_retry = FALSE
    /\ req_log = << >>
    /\ req_result = "none"
    /\ calls = 0
    /\ req_start = 0
    /\ Deployed(SmallDeployments)

NextShared ==
    \/ NextFull
    \/ WalkRefresh

SpecShared == InitShared /\ [][NextShared]_vars

\* The same processes, any of which can be killed.
NextCrash ==
    \/ NextFull
    \/ Kill

InitCrash == InitDeployed(SmallDeployments)

SpecCrash == InitCrash /\ [][NextCrash]_vars

\* run_full_sync against an organisation that goes on posting.
NextPost ==
    \/ NextFull
    \/ PostJournals

SpecPost == InitFull /\ [][NextPost]_vars

\* ------------------------------------------------- claims of part 1

\* The refresh token the next refresh request sends: the in-memory one
\* after the re-read of the tokens row (which may fail).
NextSent(load_fails) == load_tokens_from_db(TokenState, load_fails).rt

\* The refresh token the tokens row holds (NoToken: no row).
Persisted == IF tokens_row = << >> THEN NoToken ELSE tokens_row[1].rt

\* C5: once the identity endpoint has issued a token pair to this process,
\* the refresh token the next refresh request will send is the one most
\* recently issued, whether or not the writes to the tokens table succeeded.
C5_NextRefreshSendsLatest ==
    (db_conn /\ tok_refreshes >= 1) =>
        \A load_fails \in BOOLEAN : NextSent(load_fails) = idp_current

\* C6: after N >= 1 consecutive forced refreshes the tokens table holds the
\* most recently issued refresh token, that token is accepted, and every
\* rotated-out refresh token is rejected by the identity endpoint.
C6_OnlyLatestPersistedAndUsable ==
    forced_run >= 1 =>
        /\ Persisted = idp_current
        /\ identity_endpoint(Persisted, "rotate").ok
        /\ \A t \in BootstrapToken..(BootstrapToken + issued) :
             t # idp_current => ~identity_endpoint(t, "rotate").ok

\* C7: when get_access_token has returned normally from a refresh, the new
\* access token, its expiry and the refresh token are in the tokens table.
C7_RefreshPersistedBeforeReturn ==
    tok_ret = "refreshed" => tokens_row = <<TokenState>>

\* Positions of the log holding a GET answered with `status`.
GetsWith(status) ==
    {i \in 1..Len(req_log) : req_log[i] = Event("get", status)}
Backoffs == {i \in 1..Len(req_log) : req_log[i] = Event("sleep", 0)}
AuthRefreshes == {i \in 1..Len(req_log) : req_log[i] = Event("auth_refresh", 0)}
Gets == {i \in 1..Len(req_log) : req_log[i].ev = "get"}

\* C8: every 429 is followed by one 60-second backoff and a retry (the
\* call is made again: its GET follows unless the token refresh at its
\* entry fails), at most 3 times; a success after k <= 3 429s is returned after exactly k backoffs
\* with no rate-limit error; the 4th 429 ends the call with the rate-limit
\* error and no result.
C8_RateLimitRetry ==
    /\ Cardinality(Backoffs) = retry_count
    /\ retry_count <= 3
    /\ req_pc # "idle" => now = req_start + 60 * Cardinality(Backoffs)
    /\ \A i \in GetsWith(429) :
         IF Cardinality({j \in GetsWith(429) : j <= i}) <= 3
         THEN /\ i < Len(req_log)
              /\ req_log[i + 1] = Event("sleep", 0)
              /\ (req_pc = "done" /\ req_result # "AuthError") =>
                   \E j \in Gets : j > i
         ELSE /\ i = Len(req_log)
              /\ req_pc = "done"
              /\ req_result = "RateLimitExceeded"
    /\ req_result = "ok" =>
         /\ Cardinality(GetsWith(429)) <= 3
         /\ Cardinality(Backoffs) = Cardinality(GetsWith(429))
    /\ req_result = "RateLimitExceeded" =>
         /\ Cardinality(GetsWith(429)) = 4
         /\ Cardinality(Backoffs) = 3

\* 429, 429, success: the result after two backoffs.
C8_Witness ==
    /\ req_pc = "done"
    /\ req_result = "ok"
    /\ Cardinality(GetsWith(429)) = 2
    /\ Cardinality(Backoffs) = 2
    /\ Cardinality(Gets) = 3

\* C9: the first 401 of a call chain forces one token refresh and a retry;
\* a 401 after that refresh ends the call with the HTTP error: no further
\* refresh by the 401 handler and no further request, also with 429 retries
\* between the two 401s.
C9_AuthRetryOnce ==
    /\ Cardinality(AuthRefreshes) <= 1
    /\ Cardinality(GetsWith(401)) <= 2
    /\ auth_retry => Cardinality(AuthRefreshes) = 1
    /\ \A i \in GetsWith(401) :
         IF \A j \in GetsWith(401) : i <= j
         THEN /\ i < Len(req_log)
              /\ req_log[i + 1] = Event("auth_refresh", 0)
              /\ (req_pc = "done" /\ req_result # "AuthError") =>
                   \E j \in Gets : j > i
         ELSE /\ i = Len(req_log)
              /\ req_pc = "done"
              /\ req_result = "HTTPError"

\* 401, refresh, 429, backoff, 401: the call has failed for good.
C9_Witness ==
    /\ req_pc = "done"
    /\ Cardinality(GetsWith(401)) = 2
    /\ \E i \in GetsWith(401), j \in GetsWith(429), k \in GetsWith(401) :
         i < j /\ j < k

\* C10 as stated: a response that is not 2xx, 429 or 401 makes the call fail
\* at once, with no retry, backoff or refresh after it.
C10_NonSuccessFailsImmediately ==
    \A i \in Gets :
        LET st == req_log[i].status IN
        (st # 0 /\ ~(200 <= st /\ st < 300) /\ st \notin {429, 401}) =>
            /\ i = Len(req_log)
            /\ req_pc = "done"
            /\ req_result \notin {"ok", "none"}

\* C10 as amended: no retry, backoff or refresh follows a response that is
\* not 2xx, 429 or 401, and the call fails at once with the HTTP error when
\* that response is a 4xx or 5xx.
C10_ErrorStatusFailsImmediately ==
    \A i \in Gets :
        LET st == req_log[i].status IN
        (st # 0 /\ ~(200 <= st /\ st < 300) /\ st \notin {429, 401}) =>
            /\ i = Len(req_log)
            /\ req_pc = "done"
            /\ (400 <= st /\ st < 600) => req_result = "HTTPError"

\* A 500 after a 429 and its backoff: the call has failed, nothing follows.
C10_Witness ==
    /\ req_pc = "done"
    /\ req_result = "HTTPError"
    /\ Len(req_log) = 3
    /\ req_log[1] = Event("get", 429)
    /\ req_log[3] = Event("get", 500)

\* ------------------------------------------------- claims of part 2
\* The store one uninterrupted run over the whole collection leaves.
AllInvoices == [i \in 1..Len(remote_inv) |-> [id |-> i, ver |-> remote_inv[i]]]
UninterruptedRun == execute_invoices(EmptyDb, AllInvoices)
StoreComplete ==
    /\ db.invoices = UninterruptedRun.invoices
    /\ db.invoice_items = UninterruptedRun.invoice_items

\* C1: for the invoices sync against an unchanged remote collection, when a
\* run was killed at some point and a later run has completed, the store
\* holds every remote invoice and every line item exactly once, as after one
\* uninterrupted run.
C1_KilledThenCompletedIsComplete ==
    (pc = "off" /\ run_result = "ok" /\ kills > 0) => StoreComplete

\* C2: whenever the committed invoices checkpoint has status running, the
\* records of every page of the current walk up to its last_synced_page are
\* committed in the store.
C2_RunningCheckpointIsCommitted ==
    ("invoices" \in DOMAIN db.sync_progress
        /\ db.sync_progress["invoices"].sync_status = "running")
    => \A p \in walk_first..db.sync_progress["invoices"].last_synced_page :
         LET invoices == fetch_invoices(p, walk_since)
         IN \A k \in DOMAIN invoices : invoices[k].id \in DOMAIN db.invoices

\* C3: when a process was killed after the commit of a batch and before the
\* checkpoint was advanced for it, and the next run has completed, that run
\* fetched every page of the batch again and the store is as after one
\* uninterrupted run.
C3_CommittedBatchIsRefetched ==
    (pc = "off" /\ run_result = "ok" /\ crash_batch # {})
    => (crash_batch \subseteq fetched /\ StoreComplete)

\* C4: when two runs of the complete sync in succession have both ended
\* with success against the unchanged remote collections, the second one has
\* left the row count of every entity table and of every child table as the
\* first one left it.
C4_SecondRunKeepsRowCounts ==
    \A i \in DOMAIN history :
        (i > 1 /\ history[i - 1].result = "ok" /\ history[i].result = "ok")
        => history[i].counts = history[i - 1].counts

\* ------------------------------------------------- claims C11 to C20

\* C11 as stated: the page-increment walk of contacts and of invoices stops
\* exactly when a page shorter than 100 (empty included) is returned: another
\* page is requested only after a full page, and the walk does not end after
\* a full page.
C11_WalkStopsOnShortPage ==
    [][/\ pc = "con_fetch" =>
            /\ pc' = "con_fetch" => Len(fetch_contacts(page)) = PageSize
            /\ pc' = "con_flush" => Len(fetch_contacts(page)) < PageSize
       /\ pc = "inv_fetch" =>
            /\ pc' \in {"inv_fetch", "inv_flush"} =>
                 Len(fetch_invoices(page, modified_after)) = PageSize
            /\ pc' = "inv_final" =>
                 Len(fetch_invoices(page, modified_after)) < PageSize]_vars

\* C11 as amended: the walk stops exactly when an empty page is returned (or
\* the page cap is passed): another page is requested after every page that
\* is not empty, full or short, and the walk ends only after an empty page.
C11_WalkStopsOnEmptyPage ==
    [][/\ pc = "con_fetch" =>
            /\ pc' = "con_fetch" =>
                 /\ Len(fetch_contacts(page)) > 0
                 /\ page' = page + 1
            /\ pc' = "con_flush" =>
                 \/ page > MaxPagesContacts
                 \/ Len(fetch_contacts(page)) = 0
       /\ pc = "inv_fetch" =>
            /\ pc' \in {"inv_fetch", "inv_flush"} =>
                 Len(fetch_invoices(page, modified_after)) > 0
            /\ pc' = "inv_fetch" => page' = page + 1
            /\ pc' = "inv_final" =>
                 \/ page > MaxPagesInvoices
                 \/ Len(fetch_invoices(page, modified_after)) = 0]_vars

\* The invoice walk has ended on the empty page 4, requested after the short
\* page 3.
C11_Witness ==
    /\ pc = "inv_final"
    /\ page = 4
    /\ Len(fetch_invoices(3, modified_after)) \in 1..(PageSize - 1)
    /\ {3, 4} \subseteq fetched

\* A pass of the journals loop whose request returned.
JouFetched ==
    /\ pc = "jou_fetch"
    /\ pc' # "jou_except"
    /\ remote_jou' = remote_jou

\* C12: the journal offset walk stops only after 3 consecutive empty
\* responses: a response that is not empty resets the counter; the first and
\* the second consecutive empty response advance the offset by exactly 100
\* and the walk goes on; at the third the loop is left with no further
\* request, the offset where it was, and no empty response changes
\* total_synced or the buffer.
C12_ThreeEmptyResponsesEndWalk ==
    [][JouFetched =>
        LET journals == fetch_journals(current_offset) IN
        /\ total_synced' = total_synced
        /\ pc' = "jou_final" <=>
                (journals = << >> /\ consecutive_empty_responses = 2)
        /\ IF journals # << >>
           THEN /\ consecutive_empty_responses' = 0
                /\ current_offset' = journals[Len(journals)].id
           ELSE /\ consecutive_empty_responses' = consecutive_empty_responses + 1
                /\ consecutive_empty_responses' <= 3
                /\ batch_records' = batch_records
                /\ IF consecutive_empty_responses < 2
                   THEN /\ pc' = "jou_fetch"
                        /\ current_offset' = current_offset + 100
                   ELSE current_offset' = current_offset]_vars

\* One empty response, then the journal posted meanwhile (the counter is
\* reset), then the empty responses at its number, 100 and 200 above it.
C12_Witness ==
    /\ pc = "jou_final"
    /\ consecutive_empty_responses = 3
    /\ PostedJournalNumber \in remote_jou
    /\ current_offset = PostedJournalNumber + 200
    /\ \E k \in DOMAIN batch_records : batch_records[k].id = PostedJournalNumber

\* The flushes made after the loop of the running sync.
FinalFlushes == {i \in DOMAIN flushes : flushes[i].at = "final"}

\* C13: in sync_invoices and sync_journals a flush inside the fetch loop
\* happens only with a buffer of at least batch_size x 100 records and as
\* soon as the buffer has reached that size (the loop never goes on to fetch
\* with such a buffer); after the walk a remainder that is not empty, which
\* is below the threshold, is flushed exactly once, and nothing is flushed
\* when there is no remainder.
C13_FlushAtThreshold ==
    /\ pc \in {"inv_fetch", "jou_fetch"} =>
            Len(batch_records) < batch_size * 100
    /\ pc \in {"inv_flush", "inv_commit", "inv_mark", "jou_flush", "jou_commit"} =>
            Len(batch_records) >= batch_size * 100
    /\ \A i \in DOMAIN flushes :
            IF flushes[i].at = "batch"
            THEN flushes[i].size >= batch_size * 100
            ELSE /\ flushes[i].size > 0
                 /\ flushes[i].size < batch_size * 100
                 /\ i = Len(flushes)
    /\ pc \in {"inv_complete", "inv_log", "jou_complete", "jou_meta", "jou_log"} =>
            IF batch_records = << >>
            THEN FinalFlushes = {}
            ELSE /\ Cardinality(FinalFlushes) = 1
                 /\ flushes[Len(flushes)].size = Len(batch_records)

\* batch_size = 2 and 250 invoices: one flush of 200 in the loop, then the
\* remainder of 50.
C13_Witness ==
    /\ pc = "inv_log"
    /\ batch_size = 2
    /\ Len(flushes) = 2
    /\ flushes[1].at = "batch" /\ flushes[1].size = 200
    /\ flushes[2].at = "final" /\ flushes[2].size = 50

\* The scenario of C14: sync_invoices with batch_size = 10 walks the three
\* full pages of 300 invoices from page 1, unfiltered.
ThreePagesFetched ==
    /\ batch_size = 10
    /\ Len(remote_inv) = 300
    /\ walk_first = 1
    /\ walk_since = None
    /\ {1, 2, 3} \subseteq fetched

\* C14 as stated: fetching 3 pages of 100 invoices with batch_size = 10
\* yields exactly one flush, the final one, of 300 records, and when the sync
\* has finished the checkpoint is at page 3 with status completed.
C14_ThreePagesOneFlushPage3 ==
    (ThreePagesFetched /\ pc = "inv_log") =>
        /\ Len(flushes) = 1
        /\ flushes[1].at = "final"
        /\ flushes[1].size = 300
        /\ "invoices" \in DOMAIN db.sync_progress =>
             /\ db.sync_progress["invoices"].last_synced_page = 3
             /\ db.sync_progress["invoices"].sync_status = "completed"

\* C14 as amended: exactly one flush, the final one, of 300 records; the
\* final flush leaves the checkpoint at page 3 with status running, and the
\* completion that follows sets it to page 0 with status completed.
C14_ThreePagesOneFlushPage0 ==
    /\ (ThreePagesFetched /\ pc \in {"inv_complete", "inv_log"}) =>
            /\ Len(flushes) = 1
            /\ flushes[1].at = "final"
            /\ flushes[1].size = 300
    /\ (ThreePagesFetched /\ "invoices" \in DOMAIN db.sync_progress) =>
            /\ pc = "inv_complete" =>
                 /\ db.sync_progress["invoices"].last_synced_page = 3
                 /\ db.sync_progress["invoices"].sync_status = "running"
            /\ pc = "inv_log" =>
                 /\ db.sync_progress["invoices"].last_synced_page = 0
                 /\ db.sync_progress["invoices"].sync_status = "completed"

\* The scenario has run to its end on a database with the checkpoint row.
C14_Witness ==
    /\ ThreePagesFetched
    /\ pc = "inv_log"
    /\ total_synced = 300
    /\ "invoices" \in DOMAIN db.sync_progress

\* The order in which run_full_sync calls the entity syncs.
SyncOrder == <<"accounts", "contacts", "invoices", "journals">>

\* The syncs entered are a prefix of the order, each entered only after the
\* one before it returned normally.
InOrder(syncs) ==
    /\ Len(syncs) <= Len(SyncOrder)
    /\ \A k \in DOMAIN syncs :
         /\ syncs[k].entity = SyncOrder[k]
         /\ k < Len(syncs) => syncs[k].result = "ok"

\* C15: run_full_sync starts the entity syncs in the order accounts,
\* contacts, invoices, journals, each only after the previous one returned
\* successfully; after the first one that fails no later one is started and
\* the run reports failure (False, exit status 1); it reports success only
\* when all four succeeded.
C15_FixedOrderFailFast ==
    /\ entry = "run_full_sync" => InOrder(started)
    /\ \A i \in DOMAIN history :
         LET h == history[i]
             n == Len(h.syncs)
         IN /\ InOrder(h.syncs)
            /\ h.result = "ok" <=>
                    (n = Len(SyncOrder) /\ h.syncs[n].result = "ok")
            /\ h.result = "ok" <=> h.exit = 0
            /\ h.result = "failed" <=> h.exit = 1
            /\ h.result = "failed" => (n > 0 /\ h.syncs[n].result = "failed")

\* A run in which sync_contacts failed: the invoices and the journals were
\* not started.
C15_Witness ==
    \E i \in DOMAIN history :
        /\ history[i].result = "failed"
        /\ Len(history[i].syncs) = 2
        /\ history[i].syncs[2] = [entity |-> "contacts", result |-> "failed"]

\* get_access_token(force_refresh) contacts the identity endpoint unless it
\* returns the cached token.
ReturnsCached(force_refresh) ==
    \A e \in TokenEnv : get_access_token(force_refresh, e).ret = "cached"
Refreshes(force_refresh) ==
    \A e \in TokenEnv : get_access_token(force_refresh, e).ret # "cached"

\* C16 as stated: get_access_token(force_refresh=False) returns the cached
\* token without contacting the identity endpoint if and only if a token is
\* cached and it does not expire within the next 5 minutes; with
\* force_refresh set, or with a token expiring inside those 5 minutes, it
\* performs a refresh.
C16_CachedUnlessExpiringIn5Minutes ==
    LET fresh == /\ access_token # NoToken
                 /\ access_token_expires_at # None
                 /\ access_token_expires_at > now + 5 * 60
    IN /\ ReturnsCached(FALSE) <=> fresh
       /\ ~fresh => Refreshes(FALSE)
       /\ Refreshes(TRUE)

\* C16 as amended: get_access_token(force_refresh=False) returns the cached
\* token if and only if a token is cached and it has not expired yet (its
\* look-ahead is 0 minutes); with force_refresh set, or with a token that has
\* expired, it performs a refresh.
C16_CachedUnlessExpired ==
    LET valid == /\ access_token # NoToken
                 /\ access_token_expires_at # None
                 /\ access_token_expires_at > now
    IN /\ ReturnsCached(FALSE) <=> valid
       /\ ~valid => Refreshes(FALSE)
       /\ Refreshes(TRUE)

\* get_access_token has returned the cached token less than 5 minutes
\* before its expiry.
C16_Witness ==
    /\ tok_ret = "cached"
    /\ access_token # NoToken
    /\ access_token_expires_at > now
    /\ access_token_expires_at <= now + 5 * 60

\* The flushes of the running sync that wrote a record which was already
\* committed when the process before it was killed.
ReworkFlushes(entity) ==
    {i \in DOMAIN flushes : flushes[i].ids \cap crash_rows[entity] # {}}

\* The entity sync the process is in.
RunningSync == IF started = << >> THEN "none" ELSE started[Len(started)].entity

\* C17: for invoices and for journals, the run after a killed process
\* re-fetches and re-upserts at most one batch of records that were already
\* committed before the kill.
C17_ReworkAtMostOneBatch ==
    \A entity \in {"invoices", "journals"} :
        RunningSync = entity => Cardinality(ReworkFlushes(entity)) <= 1

\* The last failure recorded, once a step has recorded one, and the table of
\* parent records the sync at a label writes.
LastFault == faults[Len(faults)]
ParentRows(t, label) ==
    IF label \in {"inv_flush", "inv_final"} THEN t.invoices ELSE t.journals

\* C18: when the upsert of one parent record of a buffer fails, in
\* sync_invoices or sync_journals, in a full batch or in the final remainder,
\* the sync goes on to the commit of that batch with a transaction that can
\* commit: the failing record is not written by these executes and every
\* other record of the buffer is.
C18_FailingRecordSkipped ==
    [][(/\ Len(faults') = Len(faults) + 1
        /\ LastFault'.kind \in {"client", "server"})
       => /\ pc' \in {"inv_commit", "inv_fcommit", "jou_commit", "jou_fcommit"}
          /\ ~txn'.aborted
          /\ \A id \in ids_of(batch_records) \ {LastFault'.id} :
                id \in DOMAIN ParentRows(txn', pc)
          /\ (LastFault'.id \in DOMAIN ParentRows(txn', pc)
                => LastFault'.id \in DOMAIN ParentRows(txn, pc))]_vars

\* The flushes of the running sync that went through the commit verification
\* of sync_journals.
VerifiedFlushes == {i \in 1..Len(flushes) : "warning" \in DOMAIN flushes[i]}

\* C19: the verification after the commit of a journals batch reports a
\* mismatch exactly when the row count read after the commit differs from
\* the row count the store had before the batch plus the journal_count of
\* the batch.
C19_VerificationComparesWithCountBeforeBatch ==
    \A i \in VerifiedFlushes :
        flushes[i].warning
            <=> (flushes[i].count_after # flushes[i].rows_before + flushes[i].count)

\* C20: a step that commits a journals batch and logs the verification
\* warning adds the journal_count of the batch to total_synced, clears the
\* buffer and goes back to fetching; it never enters the except handler.
C20_MismatchDoesNotFailSync ==
    [][(/\ Len(flushes') = Len(flushes) + 1
        /\ Len(flushes') \in VerifiedFlushes'
        /\ flushes'[Len(flushes')].warning)
       => /\ total_synced' = total_synced + flushes'[Len(flushes')].count
          /\ batch_records' = << >>
          /\ pc' = "jou_fetch"]_vars

\* A journals sync that logged the warning, met no failure, counted the
\* batch and reached its end with the checkpoint marked completed.
C20_Witness ==
    /\ pc = "jou_log"
    /\ faults = << >>
    /\ \E i \in VerifiedFlushes :
         flushes[i].warning /\ total_synced >= flushes[i].count
    /\ "journals" \in DOMAIN db.sync_progress
    /\ db.sync_progress["journals"].sync_status = "completed"

\* ------------------------------------------------- claims C21 to C30

\* The labels of sync_invoices past its start.
InvoiceLabels ==
    {"inv_fetch", "inv_flush", "inv_commit", "inv_mark", "inv_final",
     "inv_fcommit", "inv_fmark", "inv_complete", "inv_log", "inv_except",
     "inv_exlog"}

C22_ResumeKeepsMode ==
    [][(/\ pc = "inv_begin"
        /\ pc' = "inv_fetch"
        /\ get_sync_progress("invoices").status = "running")
       => /\ use_incremental' = (walk_since # None)
          /\ modified_after' = walk_since]_vars

\* C23: a sync_journals that finds the journals checkpoint running starts
\* its walk at the checkpointed last_synced_page + 1.
C23_JournalsResumeAfterCheckpoint ==
    [][(/\ pc = "jou_begin"
        /\ pc' = "jou_fetch"
        /\ get_sync_progress("journals").status = "running")
       => current_offset' = get_sync_progress("journals").last_page + 1]_vars

FullSyncRecorded ==
    /\ "journals" \in DOMAIN txn.sync_metadata
    /\ txn.sync_metadata["journals"].last_full_sync # None
FullSyncAge == now - txn.sync_metadata["journals"].last_full_sync
JournalsStored == DOMAIN txn.journals # {}
HighestStored == IF JournalsStored THEN max_journal_number(txn) ELSE 0

\* C25: a sync_journals that is not forced walks as a full resync from
\* offset 0 if no full sync is on record or the last one is 7 days old or
\* older, and as an incremental resync from the highest stored journal
\* number otherwise.
C25_FullOrIncremental ==
    [][(pc = "jou_begin" /\ pc' = "jou_fetch" /\ ~force_full_resync)
       => IF ~FullSyncRecorded
             \/ FullSyncAge >= FullResyncDays * SecondsPerDay
          THEN is_full_sync' /\ current_offset' = 0
          ELSE ~is_full_sync' /\ current_offset' = HighestStored]_vars

\* C25, amended: as above, but a run that finds no journal in the local
\* table walks as a full resync from offset 0 whatever is on record.
C25_FullOrIncrementalOrEmpty ==
    [][(pc = "jou_begin" /\ pc' = "jou_fetch" /\ ~force_full_resync)
       => IF \/ ~FullSyncRecorded
             \/ FullSyncAge >= FullResyncDays * SecondsPerDay
             \/ ~JournalsStored
          THEN is_full_sync' /\ current_offset' = 0
          ELSE ~is_full_sync' /\ current_offset' = HighestStored]_vars

\* An incremental walk about to send its first request, with the highest
\* stored journal number as offset, less than 7 days after a full sync.
C25_Witness ==
    /\ pc = "jou_fetch"
    /\ ~force_full_resync
    /\ ~is_full_sync
    /\ FullSyncRecorded
    /\ JournalsStored
    /\ current_offset = HighestStored
    /\ current_offset > 0
    /\ consecutive_empty_responses = 0

\* The checkpoint row a completion at the clock ts leaves.
CompletedRow(ts) ==
    [last_synced_page |-> 0, last_sync_completed_at |-> ts,
     last_modified_after |-> ts, sync_status |-> "completed"]

LastFullSync(d) ==
    IF "journals" \in DOMAIN d.sync_metadata
    THEN d.sync_metadata["journals"].last_full_sync
    ELSE None

\* C27: the committed last_full_sync of journals changes only in the
\* metadata step of a sync_journals that ran as a full sync, after its
\* checkpoint was marked completed, and then it becomes the clock; no other
\* step, of an incremental, failing or killed run, changes it.
C27_LastFullSyncOnlyByFullSync ==
    [][LastFullSync(db') # LastFullSync(db)
       => /\ pc = "jou_meta"
          /\ is_full_sync
          /\ LastFullSync(db') = now
          /\ "journals" \in DOMAIN db.sync_progress
                => db.sync_progress["journals"].sync_status = "completed"]_vars

\* An incremental run has written its metadata and left the older
\* last_full_sync as it was.
C27_Witness ==
    /\ pc = "jou_log"
    /\ ~is_full_sync
    /\ total_synced > 0
    /\ db.sync_metadata["journals"].last_incremental_sync = now
    /\ LastFullSync(db) # None
    /\ LastFullSync(db) < now

C29_FailedStartsOver ==
    [][/\ (/\ pc = "inv_begin"
           /\ pc' = "inv_fetch"
           /\ get_sync_progress("invoices").status = "failed")
          => /\ page' = 1
             /\ start_page' = 1
             /\ ~use_incremental'
             /\ modified_after' = None
       /\ (pc \in InvoiceLabels /\ pc' \in InvoiceLabels /\ ~use_incremental)
          => modified_after' = None]_vars

\* A run after a failed one, with FORCE_FULL_SYNC off and a watermark
\* stored, has requested page 1 without the filter.
C29_Witness ==
    /\ pc \in InvoiceLabels
    /\ ~force_full_sync
    /\ kills = 0
    /\ faults # << >>
    /\ faults[Len(faults)].pc \in InvoiceLabels \cup {"inv_begin"}
    /\ ~use_incremental
    /\ modified_after = None
    /\ start_page = 1
    /\ 1 \in fetched
    /\ db.sync_progress["invoices"].last_modified_after # None
    /\ db.sync_progress["invoices"].sync_status = "running"

\* The calls of sync_accounts, sync_contacts, sync_invoices and
\* sync_journals that have ended, by return or by raise: those of the
\* run_full_sync processes that ended, and those of the running one.
EndedSyncs ==
    Cardinality({ij \in (DOMAIN history) \X (DOMAIN SyncOrder) :
                    ij[2] <= Len(history[ij[1]].syncs)})
    + (IF pc = "off" THEN 0
       ELSE Cardinality({i \in DOMAIN started :
                            started[i].result # "running"}))

\* C30: xero.sync_log holds exactly one row for every call of an entity
\* sync that has ended, whether it synced records, found none or failed.
C30_OneLogRowPerSync == Len(db.sync_log) = EndedSyncs

\* ------------------------------------------------- claims C31 to C40

\* C36: a call of _make_xero_request makes at most 5 GET requests and then
\* ends: at most 4 of them are answered 429 and at most 2 of them 401; the
\* retry after a 401 keeps the count of 429 retries, and a retry after a 429
\* keeps the 401-retried flag.
C36_AtMostFiveGets ==
    /\ Cardinality(Gets) <= 5
    /\ Cardinality(Gets) <= 1 + retry_count + (IF auth_retry THEN 1 ELSE 0)
    /\ retry_count <= 3
    /\ req_pc \in {"check", "get"} =>
         Cardinality(Gets) = retry_count + (IF auth_retry THEN 1 ELSE 0)

\* 429, 429, 429, 401, refresh, then the fifth GET ends the call.
C36_Witness ==
    /\ req_pc = "done"
    /\ Cardinality(Gets) = 5
    /\ Cardinality(GetsWith(429)) = 3
    /\ Cardinality(GetsWith(401)) = 1
    /\ \A i \in GetsWith(429), j \in GetsWith(401) : i < j
    /\ req_result = "ok"

\* The tokens row holds a refresh token that _load_tokens_from_db accepts.
PersistedUsable == Persisted # NoToken /\ Persisted # PLACEHOLDER

CommitLabels == {"acc_commit", "con_commit", "inv_commit", "inv_fcommit",
                 "jou_commit", "jou_fcommit"}
HandlerLabels == ExceptLabels \cup {"inv_exlog", "jou_exlog"}

\* The entity tables of two views of the store hold the same rows.
SameRows(a, b) == \A t \in Tables : a[t] = b[t]

\* C31: the step that raises out of an entity sync and the steps of its
\* except handler leave every entity table of the store as the last commit
\* left it, so no row of the batch being written shows and the rows of the
\* earlier batches and entities stay; after the handler's rollback nothing
\* of the batch is pending on the connection; and a flush's COMMIT makes
\* all the rows executed for the batch visible, or none of them.
C31_FailedBatchNotVisible ==
    [][/\ (pc' \in HandlerLabels \/ pc \in HandlerLabels) => SameRows(db', db)
       /\ (pc \in ExceptLabels) => SameRows(txn', db)
       /\ pc \in CommitLabels => (SameRows(db', txn) \/ SameRows(db', db))]_vars

\* sync_invoices has failed in a flush after committing an earlier batch:
\* the store holds the accounts, the contacts and the invoices of the
\* earlier batch, and no invoice of the batch that was being written
\* although some of them had been executed before the failure.
C31_Witness ==
    /\ pc = "inv_exlog"
    /\ LastFault.kind = "client"
    /\ LastFault.at > 1
    /\ Len(flushes) >= 1
    /\ DOMAIN db.invoices = UNION {flushes[k].ids : k \in DOMAIN flushes}
    /\ DOMAIN db.accounts # {}
    /\ DOMAIN db.contacts # {}
    /\ batch_records # << >>
    /\ ids_of(batch_records) \cap DOMAIN db.invoices = {}
    /\ SameRows(txn, db)

\* The entities that keep a checkpoint, and the statuses an attempt writes.
Checkpointed == {"invoices", "journals"}
AttemptStatuses == {"running", "completed", "failed"}

\* C32: once sync_invoices or sync_journals has been called, whatever the
\* checkpoint table held before, the table has a row for the entity and the
\* row carries a status written by an attempt; rows are never deleted.
C32_CheckpointCreatedOnFirstAttempt ==
    \A i \in DOMAIN started :
        started[i].entity \in Checkpointed =>
            /\ started[i].entity \in DOMAIN db.sync_progress
            /\ db.sync_progress[started[i].entity].sync_status
                   \in AttemptStatuses

\* C33: when the page walk of sync_contacts has ended without an
\* exception, the remote has no page left that the walk did not fetch: the
\* page the walk would request next is past the end of the collection.
C33_WalkEndsAtEndOfCollection ==
    pc = "con_flush" =>
        /\ end_of_collection(fetch_contacts(page))
        /\ Len(batch_records) = Len(remote_con)

\* The invoice rows of the store carry the UpdatedDateUTC the remote has.
StoreCurrent ==
    \A i \in DOMAIN remote_inv :
        /\ i \in DOMAIN db.invoices
        /\ db.invoices[i].ver = remote_inv[i]

\* C35: when a second process has completed sync_invoices after a first
\* one did, neither of them having met a failure or been killed, every
\* invoice edited on the remote during the first run or between the two has
\* been fetched and stored with the edit: the store is current up to the
\* time the second run completed.
C35_NoChangeMissed ==
    (/\ pc = "off" /\ run_result = "ok" /\ runs = 2
     /\ faults = << >> /\ kills = 0
     /\ "invoices" \in DOMAIN db.sync_progress
     /\ \A i \in DOMAIN remote_inv :
          remote_inv[i] <= db.sync_progress["invoices"].last_modified_after)
    => StoreCurrent

\* The labels at which a sync commits a checkpoint update or an outcome row
\* with nothing of its own to roll back first.
MetaCommitLabels ==
    {"inv_begin", "inv_mark", "inv_fmark", "inv_complete", "inv_log",
     "inv_exlog", "jou_begin", "jou_complete", "jou_log", "jou_exlog",
     "acc_log", "con_log"}

\* C37: when _save_tokens_to_db (during a request), _update_sync_progress
\* or _log_sync commits, no entity upsert is pending on the connection, and
\* the commit leaves every entity table of the store as it was; in the
\* except handlers the pending upserts are rolled back before the commit.
C37_MetaCommitsPublishNoBatch ==
    [][/\ pc \in MetaCommitLabels \cup RequestLabels =>
            SameRows(txn, db) /\ SameRows(db', db)
       /\ pc \in ExceptLabels => SameRows(db', db)]_vars

\* A token refresh was made and saved for the request of the second page
\* of a walk of sync_invoices, after the first page was committed.
C37_Witness ==
    /\ pc = "inv_fetch"
    /\ page = 2
    /\ tok_refreshes = 1
    /\ tok_ret = "refreshed"
    /\ tokens_row = <<TokenState>>
    /\ access_token_expires_at = now + DefaultExpiresIn
    /\ DOMAIN db.invoices # {}
    /\ batch_records = << >>

\* The highest JournalNumber in a buffer and on the remote (0: none).
HighestBuffered(batch) ==
    CHOOSE m \in ids_of(batch) : \A n \in ids_of(batch) : n <= m
HighestRemote ==
    IF remote_jou = {} THEN 0
    ELSE CHOOSE m \in remote_jou : \A n \in remote_jou : n <= m

\* C38: in sync_journals every request but the first of a run has an
\* offset strictly above the one before it, the highest JournalNumber
\* received so far after a response with journals and 100 more after an
\* empty one; and no request has an offset more than 200 above the highest
\* JournalNumber of the remote, so that a run makes finitely many requests
\* and its while loop ends.
C38_OffsetGrowsWalkEnds ==
    [][/\ pc = "jou_fetch" =>
            current_offset <= HighestRemote + 2 * 100
       /\ (/\ pc = "jou_fetch" /\ pc' \in {"jou_fetch", "jou_flush"}
           /\ remote_jou' = remote_jou) =>
            /\ current_offset' > current_offset
            /\ current_offset' =
                  IF fetch_journals(current_offset) = << >>
                  THEN current_offset + 100
                  ELSE HighestBuffered(fetch_journals(current_offset))]_vars

\* A walk that met a gap in the JournalNumbers has ended: two requests with
\* journals, three empty ones, the offset above every journal of the remote.
C38_Witness ==
    /\ pc = "jou_final"
    /\ consecutive_empty_responses = 3
    /\ remote_jou # {}
    /\ \A n \in remote_jou : n < current_offset
    /\ \E n \in remote_jou : n + 2 * EmptyOffsetStep <= current_offset + 100
    /\ faults = << >>

\* The records passed to the flushes made so far in the sync, and the
\* parent records those flushes upserted.
FlushedIds == UNION {flushes[k].ids : k \in DOMAIN flushes}
UpsertedByFlushes ==
    LET sum[k \in 0..Len(flushes)] ==
            IF k = 0 THEN 0 ELSE sum[k - 1] + flushes[k].count
    IN sum[Len(flushes)]

\* C39: in sync_invoices and sync_journals every response is appended whole
\* to the buffer; a flush takes the whole buffer, none of whose records was
\* in an earlier flush of the run; the buffer is empty when the walk goes on
\* after a flush; when the sync reaches its completion every record of the
\* buffer has been flushed; and the total it returns is the number of
\* parent records its flushes upserted.
C39_EveryRecordFlushedOnce ==
    [][/\ (pc = "inv_fetch" /\ pc' \in {"inv_fetch", "inv_flush"}) =>
            batch_records' =
                batch_records \o fetch_invoices(page, modified_after)
       /\ (pc = "jou_fetch" /\ pc' \in {"jou_fetch", "jou_flush"}) =>
            batch_records' = batch_records \o fetch_journals(current_offset)
       /\ (pc \in {"inv_commit", "inv_fcommit", "jou_commit", "jou_fcommit"}
           /\ pc' \notin ExceptLabels /\ pc' # "off") =>
            /\ Len(flushes') = Len(flushes) + 1
            /\ SubSeq(flushes', 1, Len(flushes)) = flushes
            /\ flushes'[Len(flushes')].ids = ids_of(batch_records)
            /\ ids_of(batch_records) \cap FlushedIds = {}
       /\ (pc \in {"inv_mark", "jou_commit"}
           /\ pc' \in {"inv_fetch", "jou_fetch"}) => batch_records' = << >>
       /\ pc' \in {"inv_complete", "jou_complete"} =>
            ids_of(batch_records') \subseteq FlushedIds'
       /\ pc \in {"inv_log", "jou_log"} => total_synced = UpsertedByFlushes]_vars

\* sync_invoices is about to return 250 after three flushes, and the store
\* holds 250 invoices.
C39_Witness ==
    /\ pc = "inv_log"
    /\ faults = << >>
    /\ Len(flushes) = 3
    /\ total_synced = Len(remote_inv)
    /\ FlushedIds = DOMAIN db.invoices
    /\ Cardinality(FlushedIds) = total_synced

\* The parent records the commits of the sync's flushes have made durable,
\* and the newest row of xero.sync_log.
CommittedByFlushes ==
    LET sum[k \in 0..Len(flushes)] ==
            IF k = 0 THEN 0
            ELSE sum[k - 1] + (IF flushes[k].committed THEN flushes[k].count
                               ELSE 0)
    IN sum[Len(flushes)]
LastLogRow(d) == d.sync_log[Len(d.sync_log)]

\* C40: the row _log_sync writes at the end of an attempt of sync_invoices
\* or sync_journals, successful or failed, carries as records_synced the
\* number of parent records the attempt committed.
C40_LoggedCountIsCommitted ==
    [][(pc \in {"inv_log", "inv_exlog", "jou_log", "jou_exlog"}) =>
          LastLogRow(db').records_synced = CommittedByFlushes]_vars
====
